---- MODULE Spec2Model ----
(***************************************************************************)
(* A model of the voice recorder of src/script.js: the debounced           *)
(* StorageManager, the RecordingLibrary, the capture session controller    *)
(* (toggleRecording / startNewRecording / stopRecording / resetRecorder)   *)
(* and the AudioPlayer.                                                    *)
(*                                                                         *)
(* A JavaScript string is a sequence of tokens (TLA+ strings): "" is <<>>. *)
(* Times are integers in clock units (one unit of Date.now()).             *)
(***************************************************************************)
EXTENDS Integers, Sequences, FiniteSets, TLC

\* ------------------------------------------------------------------ bounds
\* The number of saveToLocalStorage calls of a run.
MaxSaves == 3

\* The number of saveToLocalStorage calls of a run whose timeouts fire.
MaxFairSaves == 2

\* The last instant of the clock (Date.now() runs over 0..MaxTime).
MaxTime == 3

\* The number of startNewRecording calls (device acquisitions) of a run.
MaxSessions == 2

\* The number of waveform samples a capture session accumulates.
MaxSamples == 2

\* The number of startNewRecording calls of a run in which the clock advances.
MaxTimedSessions == 1

\* The number of AudioPlayer.play calls (Audio elements created) of a run.
MaxPlays == 1

\* The number of AudioPlayer.play calls of a run in which a recording is
\* played while another one is loading or playing.
MaxReplays == 2

\* The number of waveform samples up to which the growth of the canvas is
\* followed: beyond the samples the minimum width holds.
MaxSurfaceSamples == 402

\* The hours up to which the recorder's time display is checked.
MaxHours == 1

\* The number of addRecording calls made on the library directly.
MaxRecordings == 3

\* The last instant of the clock in the runs of the library.
MaxLibraryTime == 1

\* The number of record objects of a page (loaded, added or being read) up to
\* which addRecording is called in the runs with page loads.
MaxLoadRecordings == 1

\* ------------------------------------------------------------- JS values
\* null: a token sequence no string of the model equals.
Null == <<"null">>

\* JavaScript truthiness of a string-or-null: null and "" are falsy.
Truthy(v) == v # Null /\ v # <<>>

\* The storage keys of the program: DarkModeManager and RecordingLibrary.
Keys == {"darkMode", "rawRecordings", "aiImprovedRecordings"}

\* The strings the store operations are called with: "", and the two
\* values DarkModeManager writes.
Values == {<<>>, <<"enabled">>, <<"disabled">>}

\* The defaults getFromLocalStorage is asked with (null is the parameter's
\* default value).
Defaults == {Null, <<"fallback">>}

\* canvas.width = 800 in DOMContentLoaded.
InitialCanvasWidth == 800

\* Math.max(800, newWidth) in drawProgressiveWaveform.
MinCanvasWidth == 800

\* fullWaveformData.length * 2 in drawProgressiveWaveform.
SampleWidth == 2

\* The formats startNewRecording probes, in its order of preference.
MimeTypes == {"audio/webm", "audio/ogg", "audio/mp4"}

\* What MediaRecorder.isTypeSupported may answer: the sets of supported formats.
SupportFamily == {MimeTypes, {"audio/ogg", "audio/mp4"}, {"audio/mp4"}, {}}

\* ------------------------------------------------------- player values
\* A number of the playback engine: NaN, Infinity or a finite value v.
NaN == [kind |-> "nan", v |-> 0]
Infinity == [kind |-> "inf", v |-> 0]
Num(v) == [kind |-> "num", v |-> v]

\* isFinite(x)
isFinite(x) == x.kind = "num"

\* The durations, in seconds, an engine reports with its metadata: a finite
\* one, or Infinity (as for a recorded stream without a duration header).
EngineDurations == {Num(2), Infinity}

\* The positions an engine reports while it plays, in hundredths of a second.
\* The engine is not part of the program: updateProgress is written for a
\* position below zero and for one past the duration, so both are reported.
Positions == {-100, 100, 300}

\* The percentages a seek (the range input, or a click on the bar) asks for.
SeekPercents == {50, 100}

\* A ratio n/d with d > 0, in lowest terms, for the progress percentages.
RECURSIVE GCD(_, _)
GCD(a, b) == IF b = 0 THEN a ELSE GCD(b, a % b)
Ratio(n, d) ==
    LET g == GCD(IF n < 0 THEN -n ELSE n, d)
    IN [n |-> n \div g, d |-> d \div g]
RatioLeq(a, b) == a.n * b.d <= b.n * a.d
RatioMin(a, b) == IF RatioLeq(a, b) THEN a ELSE b
RatioMax(a, b) == IF RatioLeq(a, b) THEN b ELSE a

\* The texts of the duration and position displays.
LoadingText == <<"Loading...">>
ErrorText == <<"Error">>
ZeroTimeText == <<"0", ":", "0", "0">>

\* The recordings handed to AudioPlayer.play: one with durationSeconds, and
\* one stored without it (only the formatted duration).
PlayRecordings ==
    { [id |-> <<"rec-", "1">>, durationSeconds |-> 2, duration |-> <<"0", ":", "0", "2">>],
      [id |-> <<"rec-", "2">>, durationSeconds |-> 0, duration |-> <<"0", ":", "0", "1">>] }

\* No seek was requested.
NoSeek == -1

\* The kinds of recordings: the keys of this.recordings.
Kinds == {"raw", "improved"}

\* One storage key for both kinds.
SharedKey(type) == "rawRecordings"

\* The storage key of a kind.
StorageKey(type) == IF type = "raw" THEN "rawRecordings" ELSE "aiImprovedRecordings"

\* No rename input is open; the operation that ran last is no deleteRecording.
NoRename == [type |-> "none"]
NoDelete == [type |-> "none"]

\* The durations, in seconds, and the Blob of the addRecording calls made on
\* the library directly.
AddDurations == {2}
AddBlob == [chunks |-> <<>>, type |-> "audio/webm"]

\* An id no record has.
AbsentId == <<"rec-", "none">>

\* What the user leaves in the rename input of a record named current: the
\* name as it is or with a blank before it, blanks only, or another name with
\* a blank after it.
TypedNames(current) ==
    {current, <<" ">> \o current, <<" ", " ">>, <<"Take", " ">>}

VARIABLES
    pendingWrites,  \* StorageManager.pendingWrites: a Map, as the sequence of
                    \* its [key, value] entries in insertion order
    writeTimeout,   \* StorageManager.writeTimeout: 0 (null) or a timer id
    timers,         \* the timeouts of setTimeout(flushWrites) not yet fired or cleared
    localStorage,   \* the underlying store: a function from the keys it holds
    setItemLog,     \* history: the localStorage.setItem calls so far, in order
    windowWrites,   \* history: per key, the values saved since the last flush
                    \* and since the last remove of the key
    removed,        \* history: per key, "no", or how the last remove found the
                    \* key ("staged" / "unstaged") when no save followed it
    nSaves,         \* the number of saveToLocalStorage calls so far
    lastOp,         \* the operation that ran last
    now,            \* Date.now()
    \* --- capture session controller (module-level lets of script.js)
    isRecording,
    isPaused,
    mediaRecorder,  \* 0 (undefined) or the index in recorders of the MediaRecorder
    recorders,      \* every MediaRecorder constructed: [state, stream, mimeType,
                    \* stopQueued, delivered], stopQueued: stop() has queued
                    \* its task, delivered: for each dataavailable event the
                    \* recorder has fired, whether its data was not empty
    stream,         \* 0 (undefined) or the index in streams of the MediaStream
    streams,        \* every MediaStream acquired: [live, released], released:
                    \* how often its tracks were stopped (counted up to 2)
    source,         \* "none" (undefined), "connected" or "disconnected": the
                    \* MediaStreamAudioSourceNode and its link to analyser
    acquiring,      \* startNewRecording calls suspended at await getUserMedia
    nStarts,        \* the number of startNewRecording calls so far
    audioChunks,    \* the chunks pushed by ondataavailable, each the index of
                    \* the recorder that delivered it
    fullWaveformData, \* the samples pushed, each the recorder current at the push
    canvasWidth,    \* canvas.width
    recordingStartTime,   \* 0 stands for undefined before the first session too
    elapsedRecordingTime, \* in clock units (the code divides by 1000)
    animationId,    \* 0 (undefined) or the last requestAnimationFrame handle
    frames,         \* the animation frames requested and not yet run or cancelled
    recordingTimeInterval, \* 0 (undefined) or the last setInterval handle
    intervals,      \* the intervals set and not cleared
    activeTime,     \* history: clock units the current session spent with
                    \* isRecording and not isPaused
    stopIssuedAt,   \* history: the instant of the last MediaRecorder.stop() call
    recordingLength, \* the text of the recording-length element
    readers,        \* the FileReaders of addRecording still reading:
                    \* [blob, duration, type]
    \* --- RecordingLibrary
    recordings,     \* this.recordings: per kind the sequence of records [id,
                    \* name, dataUrl, duration, durationSeconds, timestamp,
                    \* type], and obj, the identity of the record object
    nObjects,       \* the number of record objects created so far
    renameInput,    \* NoRename, or the input of startRename and what its
                    \* finishRename closure holds: [type, obj, currentName,
                    \* value, removed], removed: a render has taken the
                    \* focused input out of the page and its blur is due
    lastDelete,     \* history: the arguments [id, type] of deleteRecording when
                    \* it is the operation that ran last, or NoDelete
    \* --- AudioPlayer
    currentAudio,   \* 0 (null) or the index in audios of this.currentAudio
    audios,         \* every Audio element created: [rec, phase, duration,
                    \* currentTime (hundredths of a second), paused]; phase is
                    \* "loading" (no metadata yet), "ready", "ended" or "error"
    currentRecordingId, \* Null or the id of the recording
    isPlaying,
    progressInterval,   \* 0 (null) or the setInterval handle
    progressIntervals,  \* the progress intervals set and not cleared
    playPromises,   \* the pending promises of Audio.play(): [audio, site,
                    \* resolving], site the call ("first", "retry", "toggle")
                    \* whose callbacks wait, resolving: the task that
                    \* resolves the promise is queued
    playTimers,     \* the pending timeouts of play(): [kind, audio], kind
                    \* "fallback" (1000 ms) or "retry" (100 ms), audio the
                    \* element of the play() call that set it
    seekBarValue,   \* seekBar.value, a ratio
    progressFill,   \* progressFill.style.width in percent, a ratio
    currentTimeSpan,
    durationSpan,
    playerVisible,  \* playerContainer.style.display = 'block'
    seekRequested   \* history: the percentage of the last seek requested of the
                    \* current engine while its duration was not known, or NoSeek

storeVars == <<pendingWrites, writeTimeout, timers, localStorage, setItemLog,
               windowWrites, removed, nSaves>>

capVars == <<isRecording, isPaused, mediaRecorder, recorders, stream, streams,
             source, acquiring, nStarts, audioChunks, fullWaveformData,
             canvasWidth, recordingStartTime, elapsedRecordingTime, animationId,
             frames, recordingTimeInterval, intervals, activeTime, stopIssuedAt,
             recordingLength>>

libVars == <<recordings, nObjects, renameInput, lastDelete>>

playVars == <<currentAudio, audios, currentRecordingId, isPlaying,
              progressInterval, progressIntervals, playPromises, playTimers,
              seekBarValue, progressFill, currentTimeSpan, durationSpan,
              playerVisible, seekRequested>>

vars == <<storeVars, lastOp, now, capVars, readers, libVars, playVars>>

\* ------------------------------------------------------------ Map helpers
MapHas(m, key) == \E i \in 1..Len(m) : m[i].key = key

MapGet(m, key) == m[CHOOSE i \in 1..Len(m) : m[i].key = key].value

\* Map.prototype.set: an existing key keeps its place, a new key is appended.
MapSet(m, key, value) ==
    IF MapHas(m, key)
    THEN [i \in 1..Len(m) |-> IF m[i].key = key
                              THEN [key |-> key, value |-> value] ELSE m[i]]
    ELSE Append(m, [key |-> key, value |-> value])

\* Map.prototype.delete
MapDelete(m, key) == SelectSeq(m, LAMBDA e : e.key # key)

\* localStorage.getItem: null for a key the store does not hold.
getItem(key) == IF key \in DOMAIN localStorage THEN localStorage[key] ELSE Null

\* The store after localStorage.setItem(key, value).
setItem(store, key, value) ==
    [k \in (DOMAIN store) \cup {key} |-> IF k = key THEN value ELSE store[k]]

\* The store after localStorage.removeItem(key).
removeItem(store, key) == [k \in (DOMAIN store) \ {key} |-> store[k]]

\* The store after the forEach of flushWrites over the first n entries of m.
RECURSIVE FlushInto(_, _, _)
FlushInto(store, m, n) ==
    IF n = 0 THEN store
    ELSE setItem(FlushInto(store, m, n - 1), m[n].key, m[n].value)

\* setTimeout's handle: a positive integer no live timeout has.
NewTimerId == CHOOSE i \in 1..(Cardinality(timers) + 1) : i \notin timers

\* ----------------------------------------------------------- StorageManager
\* A staging that keeps the first value written to a key in a window.
StageWriteKeepFirst(m, key, value) ==
    IF MapHas(m, key) THEN m ELSE MapSet(m, key, value)

\* The Map after pendingWrites.set(key, value) in saveToLocalStorage.
StageWrite(m, key, value) == MapSet(m, key, value)

\* The timeouts left by saveToLocalStorage's clearTimeout(writeTimeout).
ClearWriteTimeout == IF writeTimeout # 0 THEN timers \ {writeTimeout} ELSE timers

\* A save that clears the timeout and sets none.
NoFlushScheduled(id) == ClearWriteTimeout

\* The timeouts after the clearTimeout and the setTimeout of
\* saveToLocalStorage, the new timeout's handle being id.
ScheduleFlush(id) == ClearWriteTimeout \cup {id}

\* StorageManager.saveToLocalStorage(key, value)
saveToLocalStorage(key, value) ==
    /\ nSaves < MaxSaves
    /\ pendingWrites' = StageWrite(pendingWrites, key, value)
    /\ LET id == NewTimerId
       IN /\ timers' = ScheduleFlush(id)
          /\ writeTimeout' = id
    /\ localStorage' = localStorage
    /\ setItemLog' = setItemLog
    /\ windowWrites' = [windowWrites EXCEPT ![key] = Append(@, value)]
    /\ removed' = [removed EXCEPT ![key] = "no"]
    /\ nSaves' = nSaves + 1

\* A flush that hands no entry to the store.
NoEntries(m) == <<>>

\* The entries flushWrites hands to localStorage.setItem, in order.
FlushedEntries(m) == m

\* StorageManager.flushWrites()
flushWrites ==
    /\ localStorage' = FlushInto(localStorage, FlushedEntries(pendingWrites),
                                 Len(FlushedEntries(pendingWrites)))
    /\ setItemLog' = setItemLog \o FlushedEntries(pendingWrites)
    /\ pendingWrites' = <<>>
    /\ writeTimeout' = 0
    /\ windowWrites' = [k \in Keys |-> <<>>]
    /\ UNCHANGED <<removed, nSaves>>

\* StorageManager.getFromLocalStorage(key, defaultValue)
getFromLocalStorage(key, defaultValue) ==
    IF MapHas(pendingWrites, key)
    THEN MapGet(pendingWrites, key)
    ELSE IF Truthy(getItem(key)) THEN getItem(key) ELSE defaultValue

\* A remove that leaves the staged write in the Map.
UnstageWriteKeep(m, key) == m

\* The Map after pendingWrites.delete(key) in removeFromLocalStorage.
UnstageWrite(m, key) == MapDelete(m, key)

\* StorageManager.removeFromLocalStorage(key)
removeFromLocalStorage(key) ==
    /\ removed' = [removed EXCEPT ![key] =
                      IF MapHas(pendingWrites, key) THEN "staged" ELSE "unstaged"]
    /\ pendingWrites' = UnstageWrite(pendingWrites, key)
    /\ localStorage' = removeItem(localStorage, key)
    /\ windowWrites' = [windowWrites EXCEPT ![key] = <<>>]
    /\ UNCHANGED <<writeTimeout, timers, setItemLog, nSaves>>

\* ------------------------------------------------------------------- Init
InitStore ==
    /\ pendingWrites = <<>>
    /\ writeTimeout = 0
    /\ timers = {}
    /\ localStorage = <<>>
    /\ setItemLog = <<>>
    /\ windowWrites = [k \in Keys |-> <<>>]
    /\ removed = [k \in Keys |-> "no"]
    /\ nSaves = 0

\* Two digits: padStart(2, '0').
Pad2(n) == IF n < 10 THEN <<"0", ToString(n)>> ELSE <<ToString(n)>>

\* formatTimeDisplay(seconds), the time t in clock units of a hundredth of a
\* second.
formatTimeDisplay(t) ==
    LET hours == t \div 360000
        minutes == (t % 360000) \div 6000
        secs == (t \div 100) % 60
        millis == t % 100
    IN IF hours > 0
       THEN <<ToString(hours), ":">> \o Pad2(minutes) \o <<":">> \o Pad2(secs)
       ELSE IF minutes > 0
       THEN <<ToString(minutes), ":">> \o Pad2(secs) \o <<".">> \o Pad2(millis)
       ELSE <<ToString(secs), ".">> \o Pad2(millis) \o <<" seconds">>

\* `Recording length: ${...}`
LengthText(time) == <<"Recording length: ">> \o time

\* "Recording length: 0.00 seconds"
ResetLengthText == <<"Recording length: ", "0", ".", "0", "0", " seconds">>

\* The module-level lets of script.js, and canvas.width = 800 of
\* DOMContentLoaded.
InitCapture ==
    /\ isRecording = FALSE
    /\ isPaused = FALSE
    /\ mediaRecorder = 0
    /\ recorders = <<>>
    /\ stream = 0
    /\ streams = <<>>
    /\ source = "none"
    /\ acquiring = 0
    /\ nStarts = 0
    /\ audioChunks = <<>>
    /\ fullWaveformData = <<>>
    /\ canvasWidth = InitialCanvasWidth
    /\ recordingStartTime = 0
    /\ elapsedRecordingTime = 0
    /\ animationId = 0
    /\ frames = {}
    /\ recordingTimeInterval = 0
    /\ intervals = {}
    /\ activeTime = 0
    /\ stopIssuedAt = 0
    /\ recordingLength = LengthText(formatTimeDisplay(0))

\* The AudioPlayer constructor; the displays start as the page shows them.
InitPlayer ==
    /\ currentAudio = 0
    /\ audios = <<>>
    /\ currentRecordingId = Null
    /\ isPlaying = FALSE
    /\ progressInterval = 0
    /\ progressIntervals = {}
    /\ playPromises = {}
    /\ playTimers = {}
    /\ seekBarValue = Ratio(0, 1)
    /\ progressFill = Ratio(0, 1)
    /\ currentTimeSpan = ZeroTimeText
    /\ durationSpan = ZeroTimeText
    /\ playerVisible = FALSE
    /\ seekRequested = NoSeek

\* The RecordingLibrary constructor over a store that holds no recordings:
\* loadRecordings finds neither key and returns [] for both kinds.
InitLibrary ==
    /\ recordings = [t \in Kinds |-> <<>>]
    /\ nObjects = 0
    /\ renameInput = NoRename
    /\ lastDelete = NoDelete

Init ==
    /\ InitStore
    /\ InitCapture
    /\ InitPlayer
    /\ InitLibrary
    /\ readers = <<>>
    /\ now = 0
    /\ lastOp = "init"

\* ---------------------------------------------------------- store actions
\* A caller saves value under key.
Save ==
    \E key \in Keys, value \in Values :
        /\ saveToLocalStorage(key, value)
        /\ lastOp' = "saveToLocalStorage"

\* A caller removes key.
Remove ==
    \E key \in Keys :
        /\ removeFromLocalStorage(key)
        /\ lastOp' = "removeFromLocalStorage"

\* A timeout set by saveToLocalStorage fires and runs flushWrites.
FlushTimer ==
    \E id \in timers :
        /\ timers' = timers \ {id}
        /\ flushWrites
        /\ lastOp' = "flushWrites"

NextStore ==
    \/ (Save /\ UNCHANGED <<now, capVars, readers, libVars, playVars>>)
    \/ (Remove /\ UNCHANGED <<now, capVars, readers, libVars, playVars>>)
    \/ (FlushTimer /\ UNCHANGED <<now, capVars, readers, libVars, playVars>>)

SpecStore == Init /\ [][NextStore]_vars

\* A timeout of setTimeout fires once its delay has passed.
FlushTimerRuns == FlushTimer /\ UNCHANGED <<now, capVars, readers, libVars, playVars>>

\* The store over the shorter runs in which its timeouts fire.
NextStoreFair ==
    \/ (Save /\ nSaves < MaxFairSaves
              /\ UNCHANGED <<now, capVars, readers, libVars, playVars>>)
    \/ (Remove /\ UNCHANGED <<now, capVars, readers, libVars, playVars>>)
    \/ (FlushTimer /\ UNCHANGED <<now, capVars, readers, libVars, playVars>>)

SpecStoreFair == Init /\ [][NextStoreFair]_vars /\ WF_vars(FlushTimerRuns)

\* ------------------------------------------------ capture session controller
Max(a, b) == IF a >= b THEN a ELSE b

\* A handle no request in `live` has (requestAnimationFrame, setInterval).
NewHandle(live) == CHOOSE i \in 1..(Cardinality(live) + 1) : i \notin live

\* The format startNewRecording selects when isTypeSupported answers by sup.
SelectMimeType(sup) ==
    IF "audio/webm" \in sup THEN "audio/webm"
    ELSE IF "audio/ogg" \in sup THEN "audio/ogg"
    ELSE IF "audio/mp4" \in sup THEN "audio/mp4"
    ELSE "audio/webm"

\* The recorder the variable mediaRecorder refers to is active.
RecorderActive ==
    /\ mediaRecorder # 0
    /\ recorders[mediaRecorder].state \in {"recording", "paused"}

\* The ticker's measurement: Date.now() - recordingStartTime.
Elapsed(startTime) == now - startTime

\* startRecordingTime(): clearInterval, then a new interval.
startRecordingTime ==
    LET kept == intervals \ {recordingTimeInterval}
        id == NewHandle(kept)
    IN /\ intervals' = kept \cup {id}
       /\ recordingTimeInterval' = id

\* A canvas that keeps its minimum width however many samples there are.
FixedWidth(n) == MinCanvasWidth

\* canvas.width = Math.max(800, newWidth) for n samples.
SurfaceWidth(n) == Max(MinCanvasWidth, n * SampleWidth)

\* drawProgressiveWaveform() with the flags rec and paused in force and the
\* samples data: one frame requested, one sample pushed, the canvas widened.
\* Without effect when not recording or paused.
drawProgressiveWaveform(rec, paused, data, live) ==
    IF ~rec \/ paused
    THEN /\ animationId' = animationId
         /\ frames' = live
         /\ fullWaveformData' = data
         /\ canvasWidth' = canvasWidth
    ELSE LET id == NewHandle(live)
             pushed == Append(data, mediaRecorder')
         IN /\ animationId' = id
            /\ frames' = live \cup {id}
            /\ fullWaveformData' = pushed
            /\ canvasWidth' = SurfaceWidth(Len(pushed))

\* The streams after stream.getTracks().forEach(track => track.stop()).
ReleaseStream(ss, sid) ==
    IF sid = 0 THEN ss
    ELSE [ss EXCEPT ![sid] = [live |-> FALSE,
                              released |-> IF @.released < 2 THEN @.released + 1 ELSE 2]]

\* source.disconnect(analyser) throws InvalidAccessError when the source is
\* not connected to analyser.
ResetThrows == source = "disconnected"

\* resetRecorder(), run with the streams ss. The statements before the
\* throwing source.disconnect run in either case.
resetRecorder(ss) ==
    /\ audioChunks' = <<>>
    /\ fullWaveformData' = <<>>
    /\ canvasWidth' = canvasWidth
    /\ IF ResetThrows
       THEN /\ streams' = ss
            /\ UNCHANGED <<source, frames, intervals, isRecording, isPaused,
                           recordingLength>>
       ELSE /\ source' = IF source = "none" THEN "none" ELSE "disconnected"
            /\ streams' = ReleaseStream(ss, stream)
            /\ frames' = frames \ {animationId}
            /\ intervals' = intervals \ {recordingTimeInterval}
            /\ recordingLength' = ResetLengthText
            /\ isRecording' = FALSE
            /\ isPaused' = FALSE
    /\ UNCHANGED <<mediaRecorder, stream, acquiring, nStarts, recordingStartTime,
                   elapsedRecordingTime, animationId, recordingTimeInterval,
                   activeTime, stopIssuedAt>>

\* toggleRecording() when not recording: startNewRecording() runs up to its
\* await of getUserMedia.
ToggleStart ==
    /\ ~isRecording
    /\ nStarts < MaxSessions
    /\ acquiring' = acquiring + 1
    /\ nStarts' = nStarts + 1
    /\ lastOp' = "toggleStart"
    /\ UNCHANGED <<isRecording, isPaused, mediaRecorder, recorders, stream, streams,
                   source, audioChunks, fullWaveformData, canvasWidth,
                   recordingStartTime, elapsedRecordingTime, animationId, frames,
                   recordingTimeInterval, intervals, activeTime, stopIssuedAt,
                   recordingLength>>

\* getUserMedia rejects: the catch block of startNewRecording.
GetUserMediaReject ==
    /\ acquiring > 0
    /\ acquiring' = acquiring - 1
    /\ isRecording' = FALSE
    /\ lastOp' = "getUserMediaReject"
    /\ UNCHANGED <<isPaused, mediaRecorder, recorders, stream, streams, source,
                   nStarts, audioChunks, fullWaveformData, canvasWidth,
                   recordingStartTime, elapsedRecordingTime, animationId, frames,
                   recordingTimeInterval, intervals, activeTime, stopIssuedAt,
                   recordingLength>>

\* getUserMedia resolves and startNewRecording runs to its end. The
\* MediaRecorder constructor throws NotSupportedError for a format the device
\* does not support, which the catch block handles.
GetUserMediaResolve ==
    /\ acquiring > 0
    /\ acquiring' = acquiring - 1
    /\ \E sup \in SupportFamily :
          LET mimeType == SelectMimeType(sup)
              sid == Len(streams) + 1
              rid == Len(recorders) + 1
          IN /\ stream' = sid
             /\ streams' = Append(streams, [live |-> TRUE, released |-> 0])
             /\ IF mimeType \notin sup
                THEN /\ isRecording' = FALSE
                     /\ lastOp' = "startNewRecordingCatch"
                     /\ UNCHANGED <<isPaused, mediaRecorder, recorders, source,
                                    audioChunks, fullWaveformData, canvasWidth,
                                    recordingStartTime, elapsedRecordingTime,
                                    animationId, frames, recordingTimeInterval,
                                    intervals, activeTime, stopIssuedAt,
                                    recordingLength>>
                ELSE /\ mediaRecorder' = rid
                     /\ recorders' = Append(recorders,
                            [state |-> "recording", stream |-> sid,
                             mimeType |-> mimeType, stopQueued |-> FALSE,
                             delivered |-> <<>>])
                     /\ audioChunks' = <<>>
                     /\ isRecording' = TRUE
                     /\ isPaused' = FALSE
                     /\ recordingStartTime' = now
                     /\ elapsedRecordingTime' = 0
                     /\ activeTime' = 0
                     /\ stopIssuedAt' = stopIssuedAt
                     /\ recordingLength' = recordingLength
                     /\ source' = "connected"
                     /\ drawProgressiveWaveform(TRUE, FALSE, <<>>, frames)
                     /\ startRecordingTime
                     /\ lastOp' = "startNewRecording"
    /\ UNCHANGED nStarts

\* A pause that leaves the interval of the ticker set.
KeepTicker == intervals

\* The intervals after clearInterval(recordingTimeInterval) in toggleRecording.
ClearTicker == intervals \ {recordingTimeInterval}

\* toggleRecording() when recording and not paused: pause. MediaRecorder.pause
\* throws InvalidStateError on an inactive recorder, before any assignment.
TogglePause ==
    /\ isRecording /\ ~isPaused
    /\ IF recorders[mediaRecorder].state = "inactive"
       THEN /\ lastOp' = "togglePauseThrows"
            /\ UNCHANGED capVars
       ELSE /\ recorders' = [recorders EXCEPT ![mediaRecorder].state = "paused"]
            /\ isPaused' = TRUE
            /\ frames' = frames \ {animationId}
            /\ intervals' = ClearTicker
            /\ lastOp' = "pause"
            /\ UNCHANGED <<isRecording, mediaRecorder, stream, streams, source,
                           acquiring, nStarts, audioChunks, fullWaveformData,
                           canvasWidth, recordingStartTime, elapsedRecordingTime,
                           animationId, recordingTimeInterval, activeTime, stopIssuedAt,
                           recordingLength>>

\* toggleRecording() when recording and paused: resume.
ToggleResume ==
    /\ isRecording /\ isPaused
    /\ IF recorders[mediaRecorder].state = "inactive"
       THEN /\ lastOp' = "toggleResumeThrows"
            /\ UNCHANGED capVars
       ELSE /\ recorders' = [recorders EXCEPT ![mediaRecorder].state = "recording"]
            /\ isPaused' = FALSE
            /\ mediaRecorder' = mediaRecorder
            /\ drawProgressiveWaveform(TRUE, FALSE, fullWaveformData, frames)
            /\ startRecordingTime
            /\ lastOp' = "resume"
            /\ UNCHANGED <<isRecording, stream, streams, source, acquiring, nStarts,
                           audioChunks, recordingStartTime, elapsedRecordingTime,
                           activeTime, stopIssuedAt,
                           recordingLength>>

\* stopRecording(): MediaRecorder.stop() makes the recorder inactive at once
\* and queues the task that fires dataavailable and stop; nothing happens when
\* no recorder is active.
StopRecording ==
    /\ IF RecorderActive
       THEN /\ recorders' = [recorders EXCEPT ![mediaRecorder] =
                                [@ EXCEPT !.state = "inactive", !.stopQueued = TRUE]]
            /\ stopIssuedAt' = now
            /\ lastOp' = "stopRecording"
       ELSE /\ recorders' = recorders
            /\ stopIssuedAt' = stopIssuedAt
            /\ lastOp' = "stopRecordingIgnored"
    /\ UNCHANGED <<isRecording, isPaused, mediaRecorder, stream, streams, source,
                   acquiring, nStarts, audioChunks, fullWaveformData, canvasWidth,
                   recordingStartTime, elapsedRecordingTime, animationId, frames,
                   recordingTimeInterval, intervals, activeTime, recordingLength>>

\* RecordingLibrary.addRecording(blob, duration, type) up to
\* reader.readAsDataURL(blob): the record is built when the reader has loaded.
addRecording(blob, duration, type) ==
    readers' = Append(readers, [blob |-> blob, duration |-> duration, type |-> type])

\* The duration mediaRecorder.onstop hands to the library.
StopDuration == now - recordingStartTime

\* An ondataavailable that pushes the data whatever its size.
PushAnyChunk(chunks, r, nonEmpty) == Append(chunks, r)

\* The chunks after ondataavailable of recorder r: the data is pushed when
\* its size is not 0.
PushChunk(chunks, r, nonEmpty) == IF nonEmpty THEN Append(chunks, r) ELSE chunks

\* The stop task of recorder r, queued by stop() or by the user agent when the
\* tracks of the recorder's stream have ended: dataavailable (its data pushed
\* when not empty), then onstop, which hands the Blob of audioChunks to
\* the library and calls resetRecorder. lastOp tells the stop of a session the
\* controller still holds from the stop of a recorder left behind by a reset.
RecorderStopTask(r) ==
    /\ \/ recorders[r].stopQueued
       \/ /\ recorders[r].state # "inactive"
          /\ ~streams[recorders[r].stream].live
    /\ \E nonEmpty \in BOOLEAN :
          LET chunks == PushChunk(audioChunks, r, nonEmpty)
          IN /\ recorders' = [recorders EXCEPT ![r] =
                                 [@ EXCEPT !.state = "inactive", !.stopQueued = FALSE,
                                           !.delivered = Append(@, nonEmpty)]]
             /\ addRecording([chunks |-> chunks, type |-> recorders[r].mimeType],
                             StopDuration, "raw")
    /\ resetRecorder(streams)
    /\ lastOp' = IF recorders[r].stopQueued /\ isRecording
                 THEN "onstop" ELSE "onstopAfterReset"

\* A click on the re-record button: resetRecorder().
ResetClick ==
    /\ resetRecorder(streams)
    /\ lastOp' = IF ResetThrows THEN "resetRecorderThrows" ELSE "resetRecorder"
    /\ UNCHANGED recorders

\* A requested animation frame runs drawProgressiveWaveform.
FrameFire ==
    \E f \in frames :
        /\ mediaRecorder' = mediaRecorder
        /\ drawProgressiveWaveform(isRecording, isPaused, fullWaveformData,
                                   frames \ {f})
        /\ lastOp' = "frame"
        /\ UNCHANGED <<isRecording, isPaused, recorders, stream, streams, source,
                       acquiring, nStarts, audioChunks, recordingStartTime,
                       elapsedRecordingTime, recordingTimeInterval, intervals,
                       activeTime, stopIssuedAt,
                       recordingLength>>

\* The interval of startRecordingTime runs its callback.
TickerFire ==
    \E i \in intervals :
        /\ elapsedRecordingTime' = Elapsed(recordingStartTime)
        /\ recordingLength' = LengthText(formatTimeDisplay(Elapsed(recordingStartTime)))
        /\ lastOp' = "ticker"
        /\ UNCHANGED <<isRecording, isPaused, mediaRecorder, recorders, stream,
                       streams, source, acquiring, nStarts, audioChunks,
                       fullWaveformData, canvasWidth, recordingStartTime,
                       animationId, frames, recordingTimeInterval, intervals,
                       activeTime, stopIssuedAt>>

\* The clock advances by one unit.
ClockTick ==
    /\ now < MaxTime
    /\ now' = now + 1
    /\ activeTime' = IF isRecording /\ ~isPaused THEN activeTime + 1 ELSE activeTime
    /\ lastOp' = "clock"
    /\ UNCHANGED <<isRecording, isPaused, mediaRecorder, recorders, stream, streams,
                   source, acquiring, nStarts, audioChunks, fullWaveformData,
                   canvasWidth, recordingStartTime, elapsedRecordingTime,
                   animationId, frames, recordingTimeInterval, intervals,
                   stopIssuedAt,
                   recordingLength>>

\* The capture session controller at one instant of the clock.
NextCapture ==
    \/ (ToggleStart /\ UNCHANGED <<storeVars, now, readers, libVars, playVars>>)
    \/ (GetUserMediaReject /\ UNCHANGED <<storeVars, now, readers, libVars, playVars>>)
    \/ (GetUserMediaResolve /\ UNCHANGED <<storeVars, now, readers, libVars, playVars>>)
    \/ (TogglePause /\ UNCHANGED <<storeVars, now, readers, libVars, playVars>>)
    \/ (ToggleResume /\ Len(fullWaveformData) < MaxSamples
                     /\ UNCHANGED <<storeVars, now, readers, libVars, playVars>>)
    \/ (StopRecording /\ UNCHANGED <<storeVars, now, readers, libVars, playVars>>)
    \/ (\E r \in 1..Len(recorders) : RecorderStopTask(r) /\ UNCHANGED <<storeVars, now, libVars, playVars>>)
    \/ (ResetClick /\ UNCHANGED <<storeVars, now, readers, libVars, playVars>>)
    \/ (FrameFire /\ ((isRecording /\ ~isPaused) => Len(fullWaveformData) < MaxSamples)
                  /\ UNCHANGED <<storeVars, now, readers, libVars, playVars>>)
    \/ (TickerFire /\ UNCHANGED <<storeVars, now, readers, libVars, playVars>>)

SpecCapture == Init /\ [][NextCapture]_vars

\* The capture session controller with the clock advancing.
NextCaptureTime ==
    \/ (ToggleStart /\ nStarts < MaxTimedSessions
                    /\ UNCHANGED <<storeVars, now, readers, libVars, playVars>>)
    \/ (GetUserMediaReject /\ UNCHANGED <<storeVars, now, readers, libVars, playVars>>)
    \/ (GetUserMediaResolve /\ UNCHANGED <<storeVars, now, readers, libVars, playVars>>)
    \/ (TogglePause /\ UNCHANGED <<storeVars, now, readers, libVars, playVars>>)
    \/ (ToggleResume /\ Len(fullWaveformData) < MaxSamples
                     /\ UNCHANGED <<storeVars, now, readers, libVars, playVars>>)
    \/ (StopRecording /\ UNCHANGED <<storeVars, now, readers, libVars, playVars>>)
    \/ (\E r \in 1..Len(recorders) : RecorderStopTask(r) /\ UNCHANGED <<storeVars, now, libVars, playVars>>)
    \/ (ResetClick /\ UNCHANGED <<storeVars, now, readers, libVars, playVars>>)
    \/ (FrameFire /\ ((isRecording /\ ~isPaused) => Len(fullWaveformData) < MaxSamples)
                  /\ UNCHANGED <<storeVars, now, readers, libVars, playVars>>)
    \/ (TickerFire /\ UNCHANGED <<storeVars, now, readers, libVars, playVars>>)
    \/ (ClockTick /\ UNCHANGED <<storeVars, readers, libVars, playVars>>)

SpecCaptureTime == Init /\ [][NextCaptureTime]_vars

\* The stop task of a recorder is a queued task of the event loop: it runs
\* once it is queued.
StopTaskRuns ==
    \E r \in 1..Len(recorders) :
        RecorderStopTask(r) /\ UNCHANGED <<storeVars, now, libVars, playVars>>

\* The capture session controller with the clock, its queued stop tasks run.
SpecCaptureFair == SpecCaptureTime /\ WF_vars(StopTaskRuns)

\* ------------------------------------------------------------- AudioPlayer
\* The AudioPlayer and its page elements as one value, so that a method is an
\* operator from the state before it to the state after it.
PlayerState ==
    [currentAudio |-> currentAudio, audios |-> audios,
     currentRecordingId |-> currentRecordingId, isPlaying |-> isPlaying,
     progressInterval |-> progressInterval, progressIntervals |-> progressIntervals,
     playPromises |-> playPromises, playTimers |-> playTimers,
     seekBarValue |-> seekBarValue, progressFill |-> progressFill,
     currentTimeSpan |-> currentTimeSpan, durationSpan |-> durationSpan,
     playerVisible |-> playerVisible, seekRequested |-> seekRequested]

\* The next state of the player is p.
SetPlayer(p) ==
    /\ currentAudio' = p.currentAudio
    /\ audios' = p.audios
    /\ currentRecordingId' = p.currentRecordingId
    /\ isPlaying' = p.isPlaying
    /\ progressInterval' = p.progressInterval
    /\ progressIntervals' = p.progressIntervals
    /\ playPromises' = p.playPromises
    /\ playTimers' = p.playTimers
    /\ seekBarValue' = p.seekBarValue
    /\ progressFill' = p.progressFill
    /\ currentTimeSpan' = p.currentTimeSpan
    /\ durationSpan' = p.durationSpan
    /\ playerVisible' = p.playerVisible
    /\ seekRequested' = p.seekRequested

\* AudioPlayer.formatTime(seconds), for whole seconds.
formatTime(seconds) ==
    IF seconds < 0 THEN ZeroTimeText
    ELSE <<ToString(seconds \div 60), ":">>
         \o (IF seconds % 60 < 10 THEN <<"0">> ELSE <<>>)
         \o <<ToString(seconds % 60)>>

\* duration && isFinite(duration) && duration > 0, of Audio element a.
DurationKnown(a) == isFinite(a.duration) /\ a.duration.v > 0

\* The seek handlers' guard: this.currentAudio && isFinite(duration) && duration > 0.
SeekReady(p) == p.currentAudio # 0 /\ DurationKnown(p.audios[p.currentAudio])

\* AudioPlayer.stopProgressInterval()
stopProgressInterval(p) ==
    IF p.progressInterval # 0
    THEN [p EXCEPT !.progressIntervals = @ \ {p.progressInterval},
                   !.progressInterval = 0]
    ELSE p

\* AudioPlayer.startProgressInterval()
startProgressInterval(p) ==
    LET q == stopProgressInterval(p)
        id == NewHandle(q.progressIntervals)
    IN [q EXCEPT !.progressIntervals = @ \cup {id}, !.progressInterval = id]

\* AudioPlayer.stop(). The removeEventListener calls are given new functions
\* and remove nothing: the listeners of the engine stay.
stop(p) ==
    LET q == stopProgressInterval(p)
        r == IF q.currentAudio # 0
             THEN [q EXCEPT !.audios[q.currentAudio].paused = TRUE,
                            !.audios[q.currentAudio].currentTime = 0,
                            !.currentAudio = 0]
             ELSE q
    IN [r EXCEPT !.playerVisible = FALSE,
                 !.isPlaying = FALSE,
                 !.seekBarValue = Ratio(0, 1),
                 !.progressFill = Ratio(0, 1),
                 !.currentTimeSpan = ZeroTimeText,
                 !.durationSpan = ZeroTimeText,
                 !.currentRecordingId = Null,
                 !.seekRequested = NoSeek]

\* A progress percentage written as computed.
UnclampedProgress(progress) == progress

\* Math.max(0, Math.min(100, progress))
SafeProgress(progress) ==
    RatioMax(Ratio(0, 1), RatioMin(Ratio(100, 1), progress))

\* AudioPlayer.updateProgress(): (currentTime / duration) * 100 is the ratio
\* of the position in hundredths of a second to the duration in seconds.
updateProgress(p) ==
    IF \/ p.currentAudio = 0
       \/ ~isFinite(p.audios[p.currentAudio].duration)
       \/ p.audios[p.currentAudio].duration.v = 0
    THEN p
    ELSE LET a == p.audios[p.currentAudio]
             safeProgress == SafeProgress(Ratio(a.currentTime, a.duration.v))
         IN [p EXCEPT !.seekBarValue = safeProgress,
                      !.progressFill = safeProgress,
                      !.currentTimeSpan = formatTime(a.currentTime \div 100),
                      !.durationSpan = IF @ = LoadingText /\ a.duration.v > 0
                                       THEN formatTime(a.duration.v) ELSE @]

\* AudioPlayer.play(recording, recordingElement): the Audio element is index
\* Len(audios) + 1; Audio.play() clears its paused flag and returns a promise.
play(p, recording) ==
    LET q == IF p.currentAudio # 0 THEN stop(p) ELSE p
        e == Len(q.audios) + 1
    IN [q EXCEPT !.audios = Append(@, [rec |-> recording, phase |-> "loading",
                                       duration |-> NaN, currentTime |-> 0,
                                       paused |-> FALSE]),
                 !.currentAudio = e,
                 !.currentRecordingId = recording.id,
                 !.currentTimeSpan = ZeroTimeText,
                 !.durationSpan = LoadingText,
                 !.seekBarValue = Ratio(0, 1),
                 !.progressFill = Ratio(0, 1),
                 !.playTimers = @ \cup {[kind |-> "fallback", audio |-> e]},
                 !.playerVisible = TRUE,
                 !.isPlaying = TRUE,
                 !.playPromises = @ \cup {[audio |-> e, site |-> "first", resolving |-> FALSE]},
                 !.seekRequested = NoSeek]

\* The loadedmetadata listener of play(). It reads this.currentAudio, which
\* is null (a TypeError, nothing changes) or another element when the event
\* is of an element the player has dropped.
onLoadedMetadata(p) ==
    IF p.currentAudio = 0 THEN p
    ELSE IF DurationKnown(p.audios[p.currentAudio])
    THEN [p EXCEPT !.durationSpan = formatTime(p.audios[p.currentAudio].duration.v),
                   !.seekBarValue = Ratio(0, 1)]
    ELSE [p EXCEPT !.durationSpan = ZeroTimeText]

\* The durationchange, canplay and loadeddata listeners of play().
onDurationKnown(p) ==
    IF p.currentAudio # 0 /\ DurationKnown(p.audios[p.currentAudio])
    THEN [p EXCEPT !.durationSpan = formatTime(p.audios[p.currentAudio].duration.v)]
    ELSE p

\* The error listener of play().
onError(p) == stop([p EXCEPT !.durationSpan = ErrorText])

\* The timeout of play() that checks the duration after a delay; recording is
\* the recording play() was called with.
onFallbackTimer(p, recording) ==
    IF p.currentAudio # 0 /\ DurationKnown(p.audios[p.currentAudio])
    THEN [p EXCEPT !.durationSpan = formatTime(p.audios[p.currentAudio].duration.v)]
    ELSE IF p.durationSpan = LoadingText
    THEN [p EXCEPT !.durationSpan =
                      IF recording.durationSeconds > 0
                      THEN formatTime(recording.durationSeconds)
                      ELSE IF recording.duration # <<>> THEN recording.duration
                      ELSE ZeroTimeText]
    ELSE p

\* HTMLMediaElement.load() on element e: the element starts over.
LoadAudio(p, e) ==
    [p EXCEPT !.audios[e] = [@ EXCEPT !.phase = "loading", !.duration = NaN,
                                      !.currentTime = 0, !.paused = TRUE]]

\* Audio.play() on the current element, its callbacks those of site.
PlayCurrent(p, site) ==
    [p EXCEPT !.audios[p.currentAudio].paused = FALSE,
              !.playPromises = @ \cup {[audio |-> p.currentAudio, site |-> site,
                                       resolving |-> FALSE]}]

\* The then callback of the promise pr.
onPlayResolved(p, pr) ==
    IF pr.site = "toggle"
    THEN startProgressInterval([p EXCEPT !.isPlaying = TRUE])
    ELSE startProgressInterval(p)

\* The catch callback of the promise pr: the first play reloads
\* this.currentAudio (a TypeError when it is null) and sets the retry timeout,
\* the retry stops the player, togglePlayPause only logs.
onPlayRejected(p, pr) ==
    IF pr.site = "first"
    THEN IF p.currentAudio = 0 THEN p
         ELSE [LoadAudio(p, p.currentAudio) EXCEPT
                  !.playTimers = @ \cup {[kind |-> "retry", audio |-> pr.audio]}]
    ELSE IF pr.site = "retry" THEN stop(p)
    ELSE p

\* The retry timeout of play().
onRetryTimer(p) ==
    IF p.currentAudio # 0 THEN PlayCurrent(p, "retry") ELSE p

\* AudioPlayer.togglePlayPause()
togglePlayPause(p) ==
    IF p.currentAudio = 0 THEN p
    ELSE IF p.isPlaying
    THEN stopProgressInterval([p EXCEPT !.audios[p.currentAudio].paused = TRUE,
                                        !.isPlaying = FALSE])
    ELSE PlayCurrent(p, "toggle")

\* The callback of the progress interval.
onProgressInterval(p) ==
    IF p.currentAudio # 0 /\ ~p.audios[p.currentAudio].paused
    THEN updateProgress(p)
    ELSE p

\* The input listener of the seek bar, the bar moved to percent: the position
\* (e.target.value / 100) * duration is percent * duration hundredths.
onSeekInput(p, percent) ==
    LET q == [p EXCEPT !.seekBarValue = Ratio(percent, 1),
                       !.seekRequested =
                           IF p.currentAudio # 0
                              /\ p.audios[p.currentAudio].phase = "loading"
                           THEN percent ELSE @]
    IN IF SeekReady(q)
       THEN [q EXCEPT !.audios[q.currentAudio].currentTime =
                          percent * q.audios[q.currentAudio].duration.v]
       ELSE q

\* The click listener of the progress bar, the click at percent of its width.
onProgressClick(p, percent) ==
    IF SeekReady(p)
    THEN updateProgress(
            [p EXCEPT !.audios[p.currentAudio].currentTime =
                          percent * p.audios[p.currentAudio].duration.v,
                      !.seekBarValue = Ratio(percent, 1)])
    ELSE p

\* A click on a play button of the library: audioPlayer.play(recording).
PlayClick ==
    \E recording \in PlayRecordings :
        /\ SetPlayer(play(PlayerState, recording))
        /\ lastOp' = "play"

\* Element e has loaded its metadata and reports the duration d.
EvLoadedMetadata ==
    \E e \in 1..Len(audios), d \in EngineDurations :
        /\ audios[e].phase = "loading"
        /\ SetPlayer(onLoadedMetadata(
              [PlayerState EXCEPT !.audios[e].phase = "ready",
                                  !.audios[e].duration = d]))
        /\ lastOp' = IF e = currentAudio THEN "loadedmetadata"
                     ELSE "loadedmetadataStale"

\* Element e fires durationchange, canplay or loadeddata.
EvDurationKnown ==
    \E e \in 1..Len(audios) :
        /\ audios[e].phase = "ready"
        /\ SetPlayer(onDurationKnown(PlayerState))
        /\ lastOp' = "durationKnown"

\* Element e cannot load its source.
EvError ==
    \E e \in 1..Len(audios) :
        /\ audios[e].phase = "loading"
        /\ SetPlayer(onError([PlayerState EXCEPT !.audios[e].phase = "error"]))
        /\ lastOp' = IF e = currentAudio THEN "error" ELSE "errorStale"

\* Element e plays to its end; the tasks of an element run in the order they
\* were queued, the one that resolves its play() promises before this one.
EvEnded ==
    \E e \in 1..Len(audios) :
        /\ audios[e].phase = "ready"
        /\ ~audios[e].paused
        /\ \A pr \in playPromises : pr.audio # e
        /\ SetPlayer(stop([PlayerState EXCEPT !.audios[e].phase = "ended"]))
        /\ lastOp' = "ended"

\* Element e, playing, reports another position.
AudioAdvance ==
    \E e \in 1..Len(audios), pos \in Positions :
        /\ audios[e].phase = "ready"
        /\ ~audios[e].paused
        /\ pos # audios[e].currentTime
        /\ SetPlayer([PlayerState EXCEPT !.audios[e].currentTime = pos])
        /\ lastOp' = "audioAdvance"

\* A timeout of play() fires.
PlayTimerFire ==
    \E t \in playTimers :
        LET p == [PlayerState EXCEPT !.playTimers = @ \ {t}]
        IN /\ SetPlayer(IF t.kind = "fallback"
                        THEN onFallbackTimer(p, audios[t.audio].rec)
                        ELSE onRetryTimer(p))
           /\ lastOp' = t.kind

\* Element e starts to play: the user agent takes the pending promises of its
\* play() calls and queues the task that resolves them.
EvPlaying ==
    \E e \in 1..Len(audios) :
        /\ audios[e].phase = "ready"
        /\ ~audios[e].paused
        /\ \E pr \in playPromises : pr.audio = e /\ ~pr.resolving
        /\ SetPlayer([PlayerState EXCEPT !.playPromises =
               {IF pr.audio = e THEN [pr EXCEPT !.resolving = TRUE] ELSE pr :
                   pr \in playPromises}])
        /\ lastOp' = "playing"

\* A promise of Audio.play() is fulfilled by the queued task: its then
\* callback runs, whatever has happened to the element since it started.
PlayResolved ==
    \E pr \in playPromises :
        /\ pr.resolving
        /\ SetPlayer(onPlayResolved([PlayerState EXCEPT !.playPromises = @ \ {pr}], pr))
        /\ lastOp' = "playResolved"

\* A promise of Audio.play() is rejected: the source cannot be played, or the
\* element was paused or reloaded before it started to play.
PlayRejected ==
    \E pr \in playPromises :
        /\ ~pr.resolving
        /\ audios[pr.audio].phase = "error" \/ audios[pr.audio].paused
        /\ SetPlayer(onPlayRejected([PlayerState EXCEPT !.playPromises = @ \ {pr}], pr))
        /\ lastOp' = "playRejected"

\* A click on the play/pause button (or the space key).
TogglePlayPauseClick ==
    /\ playerVisible
    /\ SetPlayer(togglePlayPause(PlayerState))
    /\ lastOp' = "togglePlayPause"

\* The progress interval fires.
ProgressIntervalFire ==
    \E i \in progressIntervals :
        /\ SetPlayer(onProgressInterval(PlayerState))
        /\ lastOp' = "progressInterval"

\* The user moves the seek bar to percent.
SeekInput ==
    \E percent \in SeekPercents :
        /\ playerVisible
        /\ SetPlayer(onSeekInput(PlayerState, percent))
        /\ lastOp' = "seekInput"

\* The user clicks the progress bar at percent of its width.
ProgressClick ==
    \E percent \in SeekPercents :
        /\ playerVisible
        /\ SetPlayer(onProgressClick(PlayerState, percent))
        /\ lastOp' = "progressClick"

\* A click on the close button: stop().
CloseClick ==
    /\ playerVisible
    /\ SetPlayer(stop(PlayerState))
    /\ lastOp' = "close"

\* The player with the failures of its elements, the rejections of play()
\* and the timeouts of play(), the position of every element left at 0.
NextPlayer ==
    \/ (PlayClick /\ Len(audios) < MaxPlays
                  /\ UNCHANGED <<storeVars, now, capVars, readers, libVars>>)
    \/ (EvLoadedMetadata /\ UNCHANGED <<storeVars, now, capVars, readers, libVars>>)
    \/ (EvDurationKnown /\ UNCHANGED <<storeVars, now, capVars, readers, libVars>>)
    \/ (EvError /\ UNCHANGED <<storeVars, now, capVars, readers, libVars>>)
    \/ (EvEnded /\ UNCHANGED <<storeVars, now, capVars, readers, libVars>>)
    \/ (PlayTimerFire /\ UNCHANGED <<storeVars, now, capVars, readers, libVars>>)
    \/ (EvPlaying /\ UNCHANGED <<storeVars, now, capVars, readers, libVars>>)
    \/ (PlayResolved /\ UNCHANGED <<storeVars, now, capVars, readers, libVars>>)
    \/ (PlayRejected /\ UNCHANGED <<storeVars, now, capVars, readers, libVars>>)
    \/ (TogglePlayPauseClick /\ UNCHANGED <<storeVars, now, capVars, readers, libVars>>)
    \/ (ProgressIntervalFire /\ UNCHANGED <<storeVars, now, capVars, readers, libVars>>)
    \/ (CloseClick /\ UNCHANGED <<storeVars, now, capVars, readers, libVars>>)

SpecPlayer == Init /\ [][NextPlayer]_vars

\* The player while its elements load and play without a failure: the runs
\* in which no element fails, no play() promise is rejected and the timeouts
\* of play() have not fired yet, without a click on the play/pause button.
NextSeek ==
    \/ (PlayClick /\ Len(audios) < MaxPlays
                  /\ UNCHANGED <<storeVars, now, capVars, readers, libVars>>)
    \/ (EvLoadedMetadata /\ UNCHANGED <<storeVars, now, capVars, readers, libVars>>)
    \/ (EvEnded /\ UNCHANGED <<storeVars, now, capVars, readers, libVars>>)
    \/ (AudioAdvance /\ UNCHANGED <<storeVars, now, capVars, readers, libVars>>)
    \/ (EvPlaying /\ UNCHANGED <<storeVars, now, capVars, readers, libVars>>)
    \/ (PlayResolved /\ UNCHANGED <<storeVars, now, capVars, readers, libVars>>)
    \/ (ProgressIntervalFire /\ UNCHANGED <<storeVars, now, capVars, readers, libVars>>)
    \/ (SeekInput /\ UNCHANGED <<storeVars, now, capVars, readers, libVars>>)
    \/ (ProgressClick /\ UNCHANGED <<storeVars, now, capVars, readers, libVars>>)
    \/ (CloseClick /\ UNCHANGED <<storeVars, now, capVars, readers, libVars>>)

SpecSeek == Init /\ [][NextSeek]_vars

\* The player with a recording played while another one is loading or
\* playing: the events, promises and timeouts of both elements, in the runs
\* without a click on the play/pause button.
NextReplay ==
    \/ (PlayClick /\ Len(audios) < MaxReplays
                  /\ UNCHANGED <<storeVars, now, capVars, readers, libVars>>)
    \/ (EvLoadedMetadata /\ UNCHANGED <<storeVars, now, capVars, readers, libVars>>)
    \/ (EvError /\ UNCHANGED <<storeVars, now, capVars, readers, libVars>>)
    \/ (EvEnded /\ UNCHANGED <<storeVars, now, capVars, readers, libVars>>)
    \/ (PlayTimerFire /\ UNCHANGED <<storeVars, now, capVars, readers, libVars>>)
    \/ (EvPlaying /\ UNCHANGED <<storeVars, now, capVars, readers, libVars>>)
    \/ (PlayResolved /\ UNCHANGED <<storeVars, now, capVars, readers, libVars>>)
    \/ (PlayRejected /\ UNCHANGED <<storeVars, now, capVars, readers, libVars>>)
    \/ (CloseClick /\ UNCHANGED <<storeVars, now, capVars, readers, libVars>>)

SpecReplay == Init /\ [][NextReplay]_vars

\* The elapsed times of a session, in hundredths of a second, that the
\* time display is checked for: around the second, the minute and the hour.
ElapsedTimes ==
    {h * 360000 + m * 6000 + sec * 100 + c :
        h \in 0..MaxHours, m \in {0, 1, 59}, sec \in {0, 7, 59}, c \in {0, 5, 99}}

\* A session that was started at instant 0 on a device that supports every
\* format and has been recording since, the clock at one of ElapsedTimes:
\* the state after startNewRecording and that much time.
InitTicking ==
    /\ InitStore /\ InitPlayer /\ InitLibrary
    /\ readers = <<>>
    /\ now \in ElapsedTimes
    /\ lastOp = "clock"
    /\ isRecording = TRUE
    /\ isPaused = FALSE
    /\ mediaRecorder = 1
    /\ recorders = <<[state |-> "recording", stream |-> 1,
                      mimeType |-> SelectMimeType(MimeTypes), stopQueued |-> FALSE,
                      delivered |-> <<>>]>>
    /\ stream = 1
    /\ streams = <<[live |-> TRUE, released |-> 0]>>
    /\ source = "connected"
    /\ acquiring = 0
    /\ nStarts = 1
    /\ audioChunks = <<>>
    /\ fullWaveformData = <<1>>
    /\ canvasWidth = Max(MinCanvasWidth, SampleWidth)
    /\ recordingStartTime = 0
    /\ elapsedRecordingTime = 0
    /\ animationId = 1
    /\ frames = {1}
    /\ recordingTimeInterval = 1
    /\ intervals = {1}
    /\ activeTime = now
    /\ stopIssuedAt = 0
    /\ recordingLength = LengthText(formatTimeDisplay(0))

\* The ticker of such a session.
NextTicking ==
    \/ (TickerFire /\ UNCHANGED <<storeVars, now, readers, libVars, playVars>>)

SpecTicking == InitTicking /\ [][NextTicking]_vars

\* The numbers of samples a session has drawn when it is taken up: one, and
\* those that fill the minimum width of the canvas or nearly so.
SurfaceStarts ==
    {1} \cup ((MinCanvasWidth \div SampleWidth - 2)..(MinCanvasWidth \div SampleWidth))

\* A session on a device that supports every format, recording and not
\* paused since its start, that has drawn n of SurfaceStarts samples: the
\* state after startNewRecording and n - 1 frames.
InitSurface ==
    /\ InitStore /\ InitPlayer /\ InitLibrary
    /\ readers = <<>>
    /\ now = 0
    /\ lastOp = "frame"
    /\ isRecording = TRUE
    /\ isPaused = FALSE
    /\ mediaRecorder = 1
    /\ recorders = <<[state |-> "recording", stream |-> 1,
                      mimeType |-> SelectMimeType(MimeTypes), stopQueued |-> FALSE,
                      delivered |-> <<>>]>>
    /\ stream = 1
    /\ streams = <<[live |-> TRUE, released |-> 0]>>
    /\ source = "connected"
    /\ acquiring = 0
    /\ nStarts = 1
    /\ audioChunks = <<>>
    /\ \E n \in SurfaceStarts :
          /\ fullWaveformData = [i \in 1..n |-> 1]
          /\ canvasWidth = SurfaceWidth(n)
    /\ recordingStartTime = 0
    /\ elapsedRecordingTime = 0
    /\ animationId = 1
    /\ frames = {1}
    /\ recordingTimeInterval = 1
    /\ intervals = {1}
    /\ activeTime = 0
    /\ stopIssuedAt = 0
    /\ recordingLength = LengthText(formatTimeDisplay(0))

\* Such a session up to its end, without the ticker.
NextSurface ==
    \/ (TogglePause /\ UNCHANGED <<storeVars, now, readers, libVars, playVars>>)
    \/ (ToggleResume /\ Len(fullWaveformData) < MaxSurfaceSamples
                     /\ UNCHANGED <<storeVars, now, readers, libVars, playVars>>)
    \/ (StopRecording /\ UNCHANGED <<storeVars, now, readers, libVars, playVars>>)
    \/ (\E r \in 1..Len(recorders) : RecorderStopTask(r) /\ UNCHANGED <<storeVars, now, libVars, playVars>>)
    \/ (ResetClick /\ UNCHANGED <<storeVars, now, readers, libVars, playVars>>)
    \/ (FrameFire /\ ((isRecording /\ ~isPaused) => Len(fullWaveformData) < MaxSurfaceSamples)
                  /\ UNCHANGED <<storeVars, now, readers, libVars, playVars>>)

SpecSurface == InitSurface /\ [][NextSurface]_vars

\* The capture session controller and the player on one page: one capture
\* session and the playback of a recording of the library, without the
\* render frames, the ticker and the failures of either.
NextPage ==
    \/ (ToggleStart /\ nStarts < MaxTimedSessions
                    /\ UNCHANGED <<storeVars, now, readers, libVars, playVars>>)
    \/ (GetUserMediaResolve /\ UNCHANGED <<storeVars, now, readers, libVars, playVars>>)
    \/ (TogglePause /\ UNCHANGED <<storeVars, now, readers, libVars, playVars>>)
    \/ (ToggleResume /\ Len(fullWaveformData) < MaxSamples
                     /\ UNCHANGED <<storeVars, now, readers, libVars, playVars>>)
    \/ (StopRecording /\ UNCHANGED <<storeVars, now, readers, libVars, playVars>>)
    \/ (\E r \in 1..Len(recorders) : RecorderStopTask(r) /\ UNCHANGED <<storeVars, now, libVars, playVars>>)
    \/ (PlayClick /\ Len(audios) < MaxPlays
                  /\ UNCHANGED <<storeVars, now, capVars, readers, libVars>>)
    \/ (EvLoadedMetadata /\ UNCHANGED <<storeVars, now, capVars, readers, libVars>>)
    \/ (EvPlaying /\ UNCHANGED <<storeVars, now, capVars, readers, libVars>>)
    \/ (PlayResolved /\ UNCHANGED <<storeVars, now, capVars, readers, libVars>>)
    \/ (EvEnded /\ UNCHANGED <<storeVars, now, capVars, readers, libVars>>)
    \/ (TogglePlayPauseClick /\ UNCHANGED <<storeVars, now, capVars, readers, libVars>>)
    \/ (CloseClick /\ UNCHANGED <<storeVars, now, capVars, readers, libVars>>)

SpecPage == Init /\ [][NextPage]_vars

\* -------------------------------------------------------- RecordingLibrary
\* RecordingLibrary.formatTime(seconds), for whole seconds from 0 on.
libraryFormatTime(seconds) ==
    <<ToString(seconds \div 60), ":">>
    \o (IF seconds % 60 < 10 THEN <<"0">> ELSE <<>>)
    \o <<ToString(seconds % 60)>>

\* reader.result of readAsDataURL(blob).
RECURSIVE ChunkTokens(_)
ChunkTokens(chunks) ==
    IF chunks = <<>> THEN <<>>
    ELSE <<ToString(Head(chunks))>> \o ChunkTokens(Tail(chunks))
DataUrl(blob) == <<"data:", blob.type, ";base64,">> \o ChunkTokens(blob.chunks)

\* A serialization of a record that loses its name.
StringifyUnnamed(r) ==
    <<"{", "id:">> \o r.id \o <<",", "name:", ",", "dataUrl:">> \o r.dataUrl
    \o <<",", "duration:">> \o r.duration
    \o <<",", "durationSeconds:", ToString(r.durationSeconds),
         ",", "timestamp:", ToString(r.timestamp), ",", "type:", r.type, "}">>

\* JSON.stringify of a record: its own properties in creation order (the
\* identity of the object is no property).
StringifyRecord(r) ==
    <<"{", "id:">> \o r.id \o <<",", "name:">> \o r.name
    \o <<",", "dataUrl:">> \o r.dataUrl \o <<",", "duration:">> \o r.duration
    \o <<",", "durationSeconds:", ToString(r.durationSeconds),
         ",", "timestamp:", ToString(r.timestamp), ",", "type:", r.type, "}">>

RECURSIVE StringifyRecords(_)
StringifyRecords(recs) ==
    IF recs = <<>> THEN <<>>
    ELSE StringifyRecord(Head(recs)) \o StringifyRecords(Tail(recs))

\* JSON.stringify(this.recordings[type])
JSONstringify(recs) == <<"[">> \o StringifyRecords(recs) \o <<"]">>

\* RecordingLibrary.saveRecordings(type), recs the sequence of the kind.
saveRecordings(type, recs) ==
    saveToLocalStorage(StorageKey(type), JSONstringify(recs))

\* A number taken from the length after the record is counted.
RecordingNumberStale(recs) == Len(recs)

\* this.recordings[type].length + 1
RecordingNumber(recs) == Len(recs) + 1

\* `Recording ${n}`
DefaultName(n) == <<"Recording ", ToString(n)>>

\* The newRecording of reader.onload, recs the sequence of the reader's kind.
NewRecording(reader, recs) ==
    [id |-> <<"rec-", ToString(now)>>,
     name |-> DefaultName(RecordingNumber(recs)),
     dataUrl |-> DataUrl(reader.blob),
     duration |-> libraryFormatTime(reader.duration),
     durationSeconds |-> reader.duration,
     timestamp |-> now,
     type |-> reader.type,
     obj |-> nObjects + 1]

\* String.prototype.trim over the tokens of a string.
RECURSIVE TrimStart(_)
TrimStart(s) ==
    IF s # <<>> /\ Head(s) = " " THEN TrimStart(Tail(s)) ELSE s
RECURSIVE TrimEnd(_)
TrimEnd(s) ==
    IF s # <<>> /\ s[Len(s)] = " " THEN TrimEnd(SubSeq(s, 1, Len(s) - 1)) ELSE s
Trim(s) == TrimEnd(TrimStart(s))

\* A render has taken the focused rename input out of the page and the blur
\* the browser dispatches for it has not run yet.
BlurDue == renameInput # NoRename /\ renameInput.removed

\* renderRawRecordings / renderAIRecordings replace the items of the page:
\* an open rename input leaves the page. Browsers differ in whether the
\* focused input that is removed gets a blur event (blur is TRUE: it does).
RenderedInput(blur) ==
    IF renameInput = NoRename THEN NoRename
    ELSE IF blur THEN [renameInput EXCEPT !.removed = TRUE]
    ELSE NoRename

\* recs with the record object obj named name (recording.name = newName).
SetName(recs, obj, name) ==
    [i \in 1..Len(recs) |->
        IF recs[i].obj = obj THEN [recs[i] EXCEPT !.name = name] ELSE recs[i]]

\* The finishRename closure of startRename, up to its render.
finishRename ==
    LET newName == Trim(renameInput.value)
        type == renameInput.type
        renamed == SetName(recordings[type], renameInput.obj, newName)
    IN IF newName # <<>> /\ newName # renameInput.currentName
       THEN /\ recordings' = [recordings EXCEPT ![type] = renamed]
            /\ saveRecordings(type, renamed)
       ELSE UNCHANGED <<recordings, storeVars>>

\* The sequence without its i-th element.
RemoveAt(s, i) == SubSeq(s, 1, i - 1) \o SubSeq(s, i + 1, Len(s))

\* An add that puts the record at the end of the sequence.
Push(recs, rec) == Append(recs, rec)

\* this.recordings[type].unshift(newRecording)
Unshift(recs, rec) == <<rec>> \o recs

\* A caller hands a Blob to the library: addRecording(blob, duration, type).
AddRecordingCall ==
    \E type \in Kinds, duration \in AddDurations :
        /\ ~BlurDue
        /\ nObjects + Len(readers) < MaxRecordings
        /\ addRecording(AddBlob, duration, type)
        /\ lastOp' = "addRecording"
        /\ lastDelete' = NoDelete
        /\ UNCHANGED <<storeVars, recordings, nObjects, renameInput>>

\* The FileReader i has read its Blob: reader.onload.
ReaderLoad ==
    \E i \in 1..Len(readers), blur \in BOOLEAN :
        LET type == readers[i].type
            added == Unshift(recordings[type],
                             NewRecording(readers[i], recordings[type]))
        IN /\ ~BlurDue
           /\ renameInput = NoRename => ~blur
           /\ readers' = RemoveAt(readers, i)
           /\ recordings' = [recordings EXCEPT ![type] = added]
           /\ nObjects' = nObjects + 1
           /\ saveRecordings(type, added)
           /\ renameInput' = RenderedInput(blur)
           /\ lastOp' = "readerLoad"
           /\ lastDelete' = NoDelete

\* A click on a delete button, or a call with an id no record has:
\* deleteRecording(id, type). A rename input that was open has lost the focus
\* to the click and has finished before.
DeleteRecording ==
    \E type \in Kinds :
        \E id \in {recordings[type][i].id : i \in 1..Len(recordings[type])}
                  \cup {AbsentId} :
            LET kept == SelectSeq(recordings[type], LAMBDA rec : rec.id # id)
            IN /\ renameInput = NoRename
               /\ recordings' = [recordings EXCEPT ![type] = kept]
               /\ saveRecordings(type, kept)
               /\ lastDelete' = [id |-> id, type |-> type]
               /\ lastOp' = "deleteRecording"
               /\ UNCHANGED <<readers, nObjects, renameInput>>

\* A double click on the title of the i-th item of a kind: startRename.
StartRename ==
    \E type \in Kinds :
        \E i \in 1..Len(recordings[type]) :
            /\ renameInput = NoRename
            /\ renameInput' = [type |-> type, obj |-> recordings[type][i].obj,
                               currentName |-> recordings[type][i].name,
                               value |-> recordings[type][i].name,
                               removed |-> FALSE]
            /\ lastOp' = "startRename"
            /\ lastDelete' = NoDelete
            /\ UNCHANGED <<storeVars, readers, recordings, nObjects>>

\* The user edits the text of the rename input.
RenameEdit ==
    /\ renameInput # NoRename
    /\ ~renameInput.removed
    /\ \E value \in TypedNames(renameInput.currentName) \ {renameInput.value} :
          renameInput' = [renameInput EXCEPT !.value = value]
    /\ lastOp' = "renameEdit"
    /\ lastDelete' = NoDelete
    /\ UNCHANGED <<storeVars, readers, recordings, nObjects>>

\* Enter in the rename input: finishRename, whose render removes the input
\* while it has the focus.
RenameEnter ==
    \E blur \in BOOLEAN :
        /\ renameInput # NoRename
        /\ ~renameInput.removed
        /\ finishRename
        /\ renameInput' = RenderedInput(blur)
        /\ lastOp' = "renameEnter"
        /\ lastDelete' = NoDelete
        /\ UNCHANGED <<readers, nObjects>>

\* The rename input loses the focus while it is in the page: finishRename.
RenameBlur ==
    /\ renameInput # NoRename
    /\ ~renameInput.removed
    /\ finishRename
    /\ renameInput' = NoRename
    /\ lastOp' = "renameBlur"
    /\ lastDelete' = NoDelete
    /\ UNCHANGED <<readers, nObjects>>

\* The blur of a rename input a render has removed: finishRename once more.
RenameRemovalBlur ==
    /\ BlurDue
    /\ finishRename
    /\ renameInput' = NoRename
    /\ lastOp' = "renameRemovalBlur"
    /\ lastDelete' = NoDelete
    /\ UNCHANGED <<readers, nObjects>>

\* The library between two flushes of the store: its writes stay staged.
NextLibrary ==
    \/ (AddRecordingCall /\ UNCHANGED <<now, capVars, playVars>>)
    \/ (ReaderLoad /\ UNCHANGED <<now, capVars, playVars>>)
    \/ (DeleteRecording /\ UNCHANGED <<now, capVars, playVars>>)
    \/ (StartRename /\ UNCHANGED <<now, capVars, playVars>>)
    \/ (RenameEdit /\ UNCHANGED <<now, capVars, playVars>>)
    \/ (RenameEnter /\ UNCHANGED <<now, capVars, playVars>>)
    \/ (RenameBlur /\ UNCHANGED <<now, capVars, playVars>>)
    \/ (RenameRemovalBlur /\ UNCHANGED <<now, capVars, playVars>>)
    \/ (ClockTick /\ ~BlurDue /\ now < MaxLibraryTime
                  /\ UNCHANGED <<storeVars, readers, recordings, nObjects,
                                 renameInput, playVars>>
                  /\ lastDelete' = NoDelete)

SpecLibrary == Init /\ [][NextLibrary]_vars

\* ------------------------------------------------- loading the recordings
\* The numbers JSON.parse reads back from their decimal tokens.
Numerals == 0..99

\* The number a decimal token denotes, or -1 for a token that is no number.
ParseNumber(token) ==
    IF \E n \in Numerals : ToString(n) = token
    THEN CHOOSE n \in Numerals : ToString(n) = token
    ELSE -1

\* One property of a serialized record: s has to start with the tag, the
\* value runs up to the next until token.
Cut(s, tag, until) ==
    IF /\ s # <<>>
       /\ Head(s) = tag
       /\ \E j \in 2..Len(s) : s[j] = until
    THEN LET j == CHOOSE k \in 2..Len(s) :
                     s[k] = until /\ \A l \in 2..(k - 1) : s[l] # until
         IN [ok |-> TRUE, value |-> SubSeq(s, 2, j - 1),
             rest |-> SubSeq(s, j + 1, Len(s))]
    ELSE [ok |-> FALSE, value |-> <<>>, rest |-> <<>>]

\* JSON.parse of one record at the head of the tokens s: ok is FALSE where
\* JSON.parse throws a SyntaxError. The record has no identity yet.
ParseRecord(s) ==
    LET id == Cut(IF s # <<>> /\ Head(s) = "{" THEN Tail(s) ELSE <<>>, "id:", ",")
        name == Cut(id.rest, "name:", ",")
        dataUrl == Cut(name.rest, "dataUrl:", ",")
        duration == Cut(dataUrl.rest, "duration:", ",")
        durationSeconds == Cut(duration.rest, "durationSeconds:", ",")
        timestamp == Cut(durationSeconds.rest, "timestamp:", ",")
        type == Cut(timestamp.rest, "type:", "}")
        ok == /\ type.ok
              /\ Len(durationSeconds.value) = 1
              /\ ParseNumber(durationSeconds.value[1]) >= 0
              /\ Len(timestamp.value) = 1
              /\ ParseNumber(timestamp.value[1]) >= 0
              /\ Len(type.value) = 1
    IN IF ok
       THEN [ok |-> TRUE, rest |-> type.rest,
             rec |-> [id |-> id.value, name |-> name.value,
                      dataUrl |-> dataUrl.value, duration |-> duration.value,
                      durationSeconds |-> ParseNumber(durationSeconds.value[1]),
                      timestamp |-> ParseNumber(timestamp.value[1]),
                      type |-> type.value[1]]]
       ELSE [ok |-> FALSE, rest |-> <<>>, rec |-> <<>>]

\* The records of the tokens s, read one after the other: value holds the
\* records read before the first token that is no record.
RECURSIVE ParseRecords(_)
ParseRecords(s) ==
    IF s = <<>> THEN [ok |-> TRUE, value |-> <<>>]
    ELSE LET r == ParseRecord(s)
         IN IF ~r.ok THEN [ok |-> FALSE, value |-> <<>>]
            ELSE LET more == ParseRecords(r.rest)
                 IN [ok |-> more.ok, value |-> <<r.rec>> \o more.value]

\* JSON.parse of a stored string: ok is FALSE where it throws.
JSONparse(s) ==
    IF Len(s) >= 2 /\ Head(s) = "[" /\ s[Len(s)] = "]"
    THEN ParseRecords(SubSeq(s, 2, Len(s) - 1))
    ELSE [ok |-> FALSE, value |-> <<>>]

\* A load that hands on what was read before the parser failed.
ParsedSoFar(parsed) == parsed.value

\* The try / catch of loadRecordings: the parsed array, or [] when
\* JSON.parse has thrown.
ParsedOrEmpty(parsed) == IF parsed.ok THEN parsed.value ELSE <<>>

\* The records recs as objects, their identities from base + 1 on.
AsObjects(recs, base) ==
    [i \in 1..Len(recs) |->
        [id |-> recs[i].id, name |-> recs[i].name, dataUrl |-> recs[i].dataUrl,
         duration |-> recs[i].duration,
         durationSeconds |-> recs[i].durationSeconds,
         timestamp |-> recs[i].timestamp, type |-> recs[i].type,
         obj |-> base + i]]

\* RecordingLibrary.loadRecordings(storageKey), read from the store stored
\* (nothing is staged when the page loads), the new objects from base + 1 on.
loadRecordings(stored, storageKey, base) ==
    LET savedRecordings == IF storageKey \in DOMAIN stored /\ Truthy(stored[storageKey])
                           THEN stored[storageKey] ELSE Null
    IN IF Truthy(savedRecordings)
       THEN AsObjects(ParsedOrEmpty(JSONparse(savedRecordings)), base)
       ELSE <<>>

\* A record another page of the origin has stored.
StoredSample ==
    [id |-> <<"rec-", "0">>, name |-> DefaultName(1),
     dataUrl |-> DataUrl(AddBlob), duration |-> libraryFormatTime(2),
     durationSeconds |-> 2, timestamp |-> 0, type |-> "raw"]

\* What the keys of the recordings can hold that the page has not written
\* itself: the empty string, a payload cut short, a payload with a record
\* followed by what is no record, and a payload of one record.
ForeignPayloads ==
    { <<>>,
      <<"[", "{">>,
      <<"[">> \o StringifyRecord(StoredSample) \o <<"{", "]">>,
      <<"[">> \o StringifyRecord(StoredSample) \o <<"]">> }

\* Something else of the origin writes a key of the recordings.
ForeignStore ==
    \E type \in Kinds, payload \in ForeignPayloads :
        /\ localStorage' = setItem(localStorage, StorageKey(type), payload)
        /\ lastOp' = "foreignStore"
        /\ UNCHANGED <<pendingWrites, writeTimeout, timers, setItemLog,
                       windowWrites, removed, nSaves>>

\* The page is loaded again over the same localStorage (DOMContentLoaded):
\* what was staged and every timeout, reader and session of the page before
\* are gone, the objects of the new page are counted from 1, and the library
\* is constructed from what the store holds.
PageLoad ==
    LET raw == loadRecordings(localStorage, StorageKey("raw"), 0)
        improved == loadRecordings(localStorage, StorageKey("improved"), Len(raw))
    IN /\ pendingWrites' = <<>>
       /\ writeTimeout' = 0
       /\ timers' = {}
       /\ windowWrites' = [k \in Keys |-> <<>>]
       /\ UNCHANGED <<localStorage, setItemLog, removed, nSaves>>
       /\ isRecording' = FALSE
       /\ isPaused' = FALSE
       /\ mediaRecorder' = 0
       /\ recorders' = <<>>
       /\ stream' = 0
       /\ streams' = <<>>
       /\ source' = "none"
       /\ acquiring' = 0
       /\ nStarts' = 0
       /\ audioChunks' = <<>>
       /\ fullWaveformData' = <<>>
       /\ canvasWidth' = InitialCanvasWidth
       /\ recordingStartTime' = 0
       /\ elapsedRecordingTime' = 0
       /\ animationId' = 0
       /\ frames' = {}
       /\ recordingTimeInterval' = 0
       /\ intervals' = {}
       /\ activeTime' = 0
       /\ stopIssuedAt' = 0
       /\ recordingLength' = LengthText(formatTimeDisplay(0))
       /\ currentAudio' = 0
       /\ audios' = <<>>
       /\ currentRecordingId' = Null
       /\ isPlaying' = FALSE
       /\ progressInterval' = 0
       /\ progressIntervals' = {}
       /\ playPromises' = {}
       /\ playTimers' = {}
       /\ seekBarValue' = Ratio(0, 1)
       /\ progressFill' = Ratio(0, 1)
       /\ currentTimeSpan' = ZeroTimeText
       /\ durationSpan' = ZeroTimeText
       /\ playerVisible' = FALSE
       /\ seekRequested' = NoSeek
       /\ readers' = <<>>
       /\ recordings' = [t \in Kinds |-> IF t = "raw" THEN raw ELSE improved]
       /\ nObjects' = Len(raw) + Len(improved)
       /\ renameInput' = NoRename
       /\ lastDelete' = NoDelete
       /\ lastOp' = "pageLoad"

\* The library over page loads, with the flushes of the store.
NextLoad ==
    \/ (AddRecordingCall /\ nObjects + Len(readers) < MaxLoadRecordings
                         /\ UNCHANGED <<now, capVars, playVars>>)
    \/ (ReaderLoad /\ UNCHANGED <<now, capVars, playVars>>)
    \/ (FlushTimer /\ UNCHANGED <<now, capVars, readers, libVars, playVars>>)
    \/ (ForeignStore /\ UNCHANGED <<now, capVars, readers, libVars, playVars>>)
    \/ (PageLoad /\ UNCHANGED now)

SpecLoad == Init /\ [][NextLoad]_vars

\* The library with the flushes of the store and the page loaded again: add,
\* delete and rename, their staged writes committed by the timer, and the
\* library constructed again from what the store holds.
NextPersist ==
    \/ (AddRecordingCall /\ nObjects + Len(readers) < MaxLoadRecordings
                         /\ UNCHANGED <<now, capVars, playVars>>)
    \/ (ReaderLoad /\ UNCHANGED <<now, capVars, playVars>>)
    \/ (DeleteRecording /\ UNCHANGED <<now, capVars, playVars>>)
    \/ (StartRename /\ UNCHANGED <<now, capVars, playVars>>)
    \/ (RenameEdit /\ UNCHANGED <<now, capVars, playVars>>)
    \/ (RenameEnter /\ UNCHANGED <<now, capVars, playVars>>)
    \/ (RenameBlur /\ UNCHANGED <<now, capVars, playVars>>)
    \/ (RenameRemovalBlur /\ UNCHANGED <<now, capVars, playVars>>)
    \/ (FlushTimer /\ UNCHANGED <<now, capVars, readers, libVars, playVars>>)
    \/ (PageLoad /\ UNCHANGED now)

SpecPersist == Init /\ [][NextPersist]_vars

\* ------------------------------------------------------ claims: the store
\* The setItem calls a step adds to the store's history.
NewSetItems == SubSeq(setItemLog', Len(setItemLog) + 1, Len(setItemLog'))

\* The entries of a sequence of [key, value] entries that are for key.
EntriesFor(entries, key) == SelectSeq(entries, LAMBDA e : e.key = key)

\* C1: the saves made to one key before the debounce timer fires reach the
\* store as exactly one setItem for the key, with the last value saved, and
\* the store receives no setItem in any step other than the timer's flush.
\* (The saves of a key counted are those since the last remove of the key.)
C1_DebouncedSingleWrite ==
    [][ /\ lastOp' # "flushWrites" => setItemLog' = setItemLog
        /\ lastOp' = "flushWrites" =>
              \A k \in Keys :
                  IF windowWrites[k] # <<>>
                  THEN /\ Len(EntriesFor(NewSetItems, k)) = 1
                       /\ EntriesFor(NewSetItems, k)[1].value
                             = windowWrites[k][Len(windowWrites[k])]
                  ELSE EntriesFor(NewSetItems, k) = <<>> ]_vars

\* C1 witness: two saves of one key and nothing else, then the flush, and
\* the store has received one setItem.
C1_Witness ==
    /\ lastOp = "flushWrites"
    /\ nSaves = 2
    /\ Len(setItemLog) = 1
    /\ \A k \in Keys : removed[k] = "no"

\* C2: getFromLocalStorage returns the pending value when the key is
\* staged, otherwise the store's value when the store holds the key,
\* otherwise the default.
C2_ReadContract ==
    \A k \in Keys, d \in Defaults :
        getFromLocalStorage(k, d) =
            IF MapHas(pendingWrites, k) THEN MapGet(pendingWrites, k)
            ELSE IF k \in DOMAIN localStorage THEN localStorage[k]
            ELSE d

\* C3: a key removed and not saved since is absent from the pending map and
\* from the store, also after the flush of the writes staged before the
\* remove.
C3_RemoveNotResurrected ==
    \A k \in Keys :
        removed[k] # "no" =>
            /\ ~MapHas(pendingWrites, k)
            /\ k \notin DOMAIN localStorage

\* C3 witness: the flush has run after the remove of a key that was staged.
C3_Witness ==
    \E k \in Keys :
        /\ removed[k] = "staged"
        /\ lastOp = "flushWrites"

\* ------------------------------------------- claims: the capture controller
\* C4: the elapsed recording time the ticker computes is the time the session
\* spent recording and not paused: a pause followed by a resume adds nothing.
C4_ElapsedExcludesPause ==
    lastOp = "ticker" => elapsedRecordingTime = activeTime

\* C5: the duration handed to the library when a session is stopped is the
\* time the session spent recording and not paused (for a stop task that runs
\* in the instant of the stop call).
C5_DurationExcludesPause ==
    (lastOp = "onstop" /\ stopIssuedAt = now) =>
        readers[Len(readers)].duration = activeTime

\* ------------------------------------------------------ claims: the player
\* C6: a seek requested while the duration of the current element is not yet
\* known is applied when the element signals readiness: after the
\* loadedmetadata event of the current element, its position is the last
\* requested fraction of its duration.
C6_PendingSeekApplied ==
    (lastOp = "loadedmetadata" /\ seekRequested # NoSeek /\ SeekReady(PlayerState)) =>
        audios[currentAudio].currentTime =
            seekRequested * audios[currentAudio].duration.v

\* A percentage within [0, 100].
InPercentRange(r) == RatioLeq(Ratio(0, 1), r) /\ RatioLeq(r, Ratio(100, 1))

\* C7: the percentages updateProgress writes to the seek bar and to the fill
\* indicator lie in [0, 100], whatever position and duration the element
\* reports: after the progress interval and after a click on the progress bar
\* (the two callers of updateProgress) both are in the range.
C7_ProgressClamped ==
    lastOp \in {"progressInterval", "progressClick"} =>
        InPercentRange(seekBarValue) /\ InPercentRange(progressFill)

\* updateProgress has run for a position past the duration and has written 100.
C7_Witness ==
    /\ lastOp = "progressInterval"
    /\ SeekReady(PlayerState)
    /\ ~audios[currentAudio].paused
    /\ audios[currentAudio].currentTime > 100 * audios[currentAudio].duration.v
    /\ seekBarValue = Ratio(100, 1)
    /\ progressFill = Ratio(100, 1)

\* ----------------------------------------------------- claims: the library
\* C8: deleteRecording(id, kind) takes exactly one record, the one with that
\* id, out of the kind's sequence when the id is present, the others keeping
\* their order, and leaves the sequence as it is when the id is absent; the
\* value staged under the kind's key is the serialization of the result.
C8_DeleteRemovesOne ==
    [][lastOp' = "deleteRecording" =>
          LET type == lastDelete'.type
              id == lastDelete'.id
              old == recordings[type]
              new == recordings'[type]
              present == \E i \in 1..Len(old) : old[i].id = id
          IN /\ present =>
                    \E i \in 1..Len(old) : old[i].id = id /\ new = RemoveAt(old, i)
             /\ ~present => new = old
             /\ MapHas(pendingWrites', StorageKey(type))
             /\ MapGet(pendingWrites', StorageKey(type)) = JSONstringify(new)]_vars

\* The steps that run the finishRename closure.
RenameCompletions == {"renameEnter", "renameBlur", "renameRemovalBlur"}

\* C9: every run of finishRename (on Enter and on blur) renames the record
\* and stages a write only when the trimmed text is not empty and differs
\* from the name the record has at that moment; otherwise the sequences and
\* the staged writes stay as they are and no write is staged.
C9_RenameOnlyOnChange ==
    [][lastOp' \in RenameCompletions =>
          LET type == renameInput.type
              newName == Trim(renameInput.value)
              held == {i \in 1..Len(recordings[type]) :
                          recordings[type][i].obj = renameInput.obj}
          IN \A i \in held :
                IF newName # <<>> /\ newName # recordings[type][i].name
                THEN /\ recordings'[type][i].name = newName
                     /\ nSaves' = nSaves + 1
                ELSE /\ recordings' = recordings
                     /\ pendingWrites' = pendingWrites
                     /\ nSaves' = nSaves]_vars

\* C10: a record added to a kind is named "Recording n", n one more than the
\* number of records the kind holds when the record is created, and goes to
\* the head of the sequence; a step that is no rename leaves every other
\* record, its name included, as it was.
C10_DefaultName ==
    [][\A type \in Kinds :
          LET old == recordings[type]
              new == recordings'[type]
          IN /\ Len(new) > Len(old) =>
                    /\ new = <<Head(new)>> \o old
                    /\ Head(new).name = <<"Recording ", ToString(Len(old) + 1)>>
             /\ lastOp' \notin RenameCompletions =>
                    \A i \in 1..Len(new) :
                        \/ Len(new) > Len(old) /\ i = 1
                        \/ \E j \in 1..Len(old) : new[i] = old[j]]_vars

\* Three adds to an empty kind: the records are named Recording 3,
\* Recording 2, Recording 1 from the head (the newest) on.
C10_Witness ==
    /\ lastOp = "readerLoad"
    /\ \E type \in Kinds :
          /\ Len(recordings[type]) = 3
          /\ \A i \in 1..3 :
                recordings[type][i].name = <<"Recording ", ToString(4 - i)>>

\* C11: loadRecordings gives the empty sequence for a key the store does not
\* hold and for a stored payload JSON.parse does not accept, and the page
\* load that calls it completes: after a page load every kind whose key is
\* absent or holds an unparsable payload is empty.
C11_LoadFailsEmpty ==
    lastOp = "pageLoad" =>
        \A type \in Kinds :
            (\/ StorageKey(type) \notin DOMAIN localStorage
             \/ ~JSONparse(localStorage[StorageKey(type)]).ok)
                => recordings[type] = <<>>

\* A page load over a raw payload that holds a record followed by what is no
\* record, the key of the other kind absent: both kinds are empty.
C11_Witness ==
    /\ lastOp = "pageLoad"
    /\ StorageKey("raw") \in DOMAIN localStorage
    /\ ~JSONparse(localStorage[StorageKey("raw")]).ok
    /\ JSONparse(localStorage[StorageKey("raw")]).value # <<>>
    /\ StorageKey("improved") \notin DOMAIN localStorage
    /\ recordings = [t \in Kinds |-> <<>>]

\* The records of both kinds.
AllRecordings == recordings["raw"] \o recordings["improved"]

\* C12: the ids addRecording gives are unique: no two records of the library
\* share an id, whenever they were created.
C12_UniqueIds ==
    \A i, j \in 1..Len(AllRecordings) :
        i # j => AllRecordings[i].id # AllRecordings[j].id

\* --------------------------------------- claims: the capture controller (2)
\* A stream whose tracks have not been stopped: the device is held.
DeviceHeld == \E sid \in 1..Len(streams) : streams[sid].live

\* C13: when getUserMedia rejects, the start leaves the session idle:
\* isRecording and isPaused are false, no ticker and no render frame is
\* scheduled and no device is held.
C13_RejectLeavesIdle ==
    lastOp = "getUserMediaReject" =>
        /\ ~isRecording
        /\ ~isPaused
        /\ intervals = {}
        /\ frames = {}
        /\ ~DeviceHeld

\* C14: a pause takes effect only from a recording session and leaves the
\* chunks, the waveform samples and the elapsed time as they are, and no
\* step taken while the session stays paused changes them.
C14_PauseKeepsState ==
    [][/\ lastOp' = "pause" =>
              /\ isRecording /\ ~isPaused
              /\ recorders[mediaRecorder].state = "recording"
              /\ UNCHANGED <<audioChunks, fullWaveformData, elapsedRecordingTime>>
       /\ (isRecording /\ isPaused /\ isRecording' /\ isPaused') =>
              UNCHANGED <<audioChunks, fullWaveformData, elapsedRecordingTime>>]_vars

\* The clock has advanced while the session is paused, with a sample drawn
\* and the elapsed time behind the clock.
C14_Witness ==
    /\ lastOp = "clock"
    /\ isRecording /\ isPaused
    /\ recorders[mediaRecorder].state = "paused"
    /\ fullWaveformData # <<>>
    /\ elapsedRecordingTime < now - recordingStartTime

\* C15: no stream is released more than once, and when a stop or a reset
\* has completed with no acquisition pending every acquired stream has been
\* released exactly once.
C15_ReleasedOnce ==
    /\ \A sid \in 1..Len(streams) : streams[sid].released <= 1
    /\ (lastOp \in {"onstop", "resetRecorder"} /\ acquiring = 0) =>
           \A sid \in 1..Len(streams) : streams[sid].released = 1

\* The last record handed to the library.
LastAdded == readers[Len(readers)]

\* A stop task of the session adds one record with the data of the session's
\* recorder, and leaves the controller idle with empty accumulators.
StopAddsOne ==
    lastOp' = "onstop" =>
        /\ Len(readers') = Len(readers) + 1
        /\ LastAdded'.blob.chunks \in {<<>>, <<mediaRecorder>>}
        /\ ~isRecording' /\ ~isPaused'
        /\ audioChunks' = <<>> /\ fullWaveformData' = <<>>

\* The record of a stop task that runs in the instant of the stop call has
\* the recording time of the session as its duration.
StopDurationFinal ==
    (lastOp' = "onstop" /\ stopIssuedAt = now) => LastAdded'.duration = activeTime

\* A start begins with elapsed time 0, no chunk and its first sample.
FreshStart ==
    lastOp' = "startNewRecording" =>
        /\ elapsedRecordingTime' = 0
        /\ audioChunks' = <<>>
        /\ fullWaveformData' = <<mediaRecorder'>>

\* A stop with no session active adds no record and changes nothing.
IdleStopIgnored ==
    (~isRecording /\ lastOp' \in {"stopRecording", "stopRecordingIgnored"}) =>
        UNCHANGED <<capVars, readers>>

\* C16: each stop of a recording or paused session adds exactly one record
\* with the session's data and final duration and leaves the controller idle,
\* the next start begins fresh, and a stop with no session active adds no
\* record and changes no state.
C16_StopAddsOneRecord ==
    [][StopAddsOne /\ StopDurationFinal /\ FreshStart /\ IdleStopIgnored]_vars

\* Under SpecCaptureFair every stop of an active session is followed by the
\* stop task of its recorder.
StopLeadsToRecord ==
    (lastOp = "stopRecording" /\ isRecording) ~>
        (lastOp \in {"onstop", "onstopAfterReset"})

\* The parts of C16 that do not involve the duration or an idle stop.
StopAddsOneAndFresh == [][StopAddsOne /\ FreshStart]_vars

\* C17: a call of resetRecorder completes without an error and leaves the
\* session idle: flags false, no chunk and no sample, no ticker and no render
\* frame scheduled, no stream live.
C17_ResetLeavesIdle ==
    lastOp \in {"resetRecorder", "resetRecorderThrows"} =>
        /\ lastOp = "resetRecorder"
        /\ ~isRecording /\ ~isPaused
        /\ audioChunks = <<>> /\ fullWaveformData = <<>>
        /\ intervals = {} /\ frames = {}
        /\ ~DeviceHeld

\* ---------------------------------------------------- claims: the player (2)
\* The engines that are not paused.
ActiveEngines == {e \in 1..Len(audios) : ~audios[e].paused}

\* The step runs a timeout or a promise callback of play() for an engine that
\* is not the current one, or an event listener of such an engine, while a
\* session exists.
PreviousEngineStep ==
    /\ currentAudio # 0
    /\ \/ \E t \in playTimers \ playTimers' :
              t.audio # currentAudio /\ lastOp' \in {"fallback", "retry"}
       \/ \E pr \in playPromises \ playPromises' :
              pr.audio # currentAudio /\ lastOp' \in {"playResolved", "playRejected"}
       \/ lastOp' \in {"errorStale", "loadedmetadataStale"}

\* The controller, the display and the current engine are left as they are,
\* and nothing is scheduled.
SessionUntouched ==
    /\ UNCHANGED <<currentAudio, currentRecordingId, isPlaying, progressInterval,
                   progressIntervals, seekBarValue, progressFill, currentTimeSpan,
                   durationSpan, playerVisible>>
    /\ audios'[currentAudio] = audios[currentAudio]
    /\ playTimers' \subseteq playTimers
    /\ playPromises' \subseteq playPromises

\* C18: only the current engine is ever active, and a callback of an engine
\* that play() has replaced changes neither the controller nor the display
\* nor the engine of the new session.
C18_OneSession ==
    [][/\ ActiveEngines \subseteq {currentAudio}
       /\ PreviousEngineStep => SessionUntouched]_vars

\* The controller is fully reset: no engine, not playing, no recording, no
\* progress timer, position and fill at zero.
ControllerReset ==
    /\ currentAudio = 0
    /\ ~isPlaying
    /\ currentRecordingId = Null
    /\ progressInterval = 0 /\ progressIntervals = {}
    /\ seekBarValue = Ratio(0, 1) /\ progressFill = Ratio(0, 1)
    /\ currentTimeSpan = ZeroTimeText

\* The step ends the playback: the element ended, the player was closed, the
\* element failed to load, or the retry of a rejected play() was rejected.
PlaybackEnds ==
    \/ lastOp' \in {"ended", "close", "error"}
    \/ /\ lastOp' = "playRejected"
       /\ \E pr \in playPromises \ playPromises' : pr.site = "retry"

\* C19: the step that ends the playback leaves the controller fully reset,
\* and it stays so until a recording is played.
C19_EndResets ==
    [][/\ PlaybackEnds => ControllerReset'
       /\ (ControllerReset /\ lastOp' # "play") => ControllerReset']_vars

\* The step that ends the playback leaves the controller fully reset.
EndStepResets == [][PlaybackEnds => ControllerReset']_vars

\* The duration of the current session in seconds: the engine's when it is
\* finite and positive, otherwise the durationSeconds of its recording.
SessionDuration ==
    LET a == audios[currentAudio]
    IN IF DurationKnown(a) THEN a.duration.v ELSE a.rec.durationSeconds

\* C20: with a session whose duration (the engine's, or else the persisted
\* durationSeconds) is positive, the progress interval of a playing engine
\* shows the position and its percentage of that duration, and a move of the
\* seek bar sets the position to that fraction of that duration.
C20_DurationFallback ==
    (currentAudio # 0 /\ SessionDuration > 0) =>
        /\ (lastOp = "progressInterval" /\ ~audios[currentAudio].paused) =>
               /\ progressFill =
                      SafeProgress(Ratio(audios[currentAudio].currentTime,
                                         SessionDuration))
               /\ currentTimeSpan = formatTime(audios[currentAudio].currentTime \div 100)
        /\ lastOp = "seekInput" =>
               audios[currentAudio].currentTime * seekBarValue.d =
                   seekBarValue.n * SessionDuration

\* C21: after the error listener of the current element has run, the session
\* is over and the duration display shows the error text.
C21_ErrorShown ==
    lastOp = "error" =>
        /\ currentAudio = 0 /\ ~isPlaying
        /\ durationSpan = ErrorText

\* ------------------------------------- claims: the capture controller (3)
\* C22: after a start that failed behind getUserMedia the acquired stream is
\* released, no ticker and no render frame is scheduled and the session is
\* idle.
C22_FailedStartReleases ==
    lastOp = "startNewRecordingCatch" =>
        /\ ~streams[stream].live
        /\ intervals = {} /\ frames = {}
        /\ ~isRecording /\ ~isPaused

\* The streams that are live and the recorders that are recording or paused.
LiveStreams == {sid \in 1..Len(streams) : streams[sid].live}
ActiveRecorders == {r \in 1..Len(recorders) : recorders[r].state # "inactive"}

\* C23: at most one stream is live, at most one recorder is active and at
\* most one render frame is requested at any time.
C23_OneCaptureSession ==
    /\ Cardinality(LiveStreams) <= 1
    /\ Cardinality(ActiveRecorders) <= 1
    /\ Cardinality(frames) <= 1

\* C24: a render frame or a ticker is scheduled only while the session is
\* recording and not paused.
C24_ScheduledOnlyRecording ==
    (frames # {} \/ intervals # {}) =>
        /\ isRecording /\ ~isPaused
        /\ recorders[mediaRecorder].state = "recording"

\* The session is recording: the flags say so and the recorder is recording.
SessionRecording ==
    isRecording /\ ~isPaused /\ recorders[mediaRecorder].state = "recording"

\* C25: a render frame or a ticker that fires while the session is not
\* recording (paused, stopped or reset) appends no sample and does not update
\* the elapsed time.
C25_LateCallbackNoOp ==
    [][(lastOp' \in {"frame", "ticker"} /\ ~SessionRecording) =>
          UNCHANGED <<fullWaveformData, elapsedRecordingTime>>]_vars

\* ------------------------------------------- claims: capture and playback
\* C26: no playback session exists while the capture session is recording or
\* paused.
C26_CaptureOrPlayback ==
    ~(isRecording /\ currentAudio # 0)

\* ------------------------------------------------- claims: the library (2)
\* The properties of the records recs, without the identities of the objects.
Properties(recs) ==
    [i \in 1..Len(recs) |->
        [id |-> recs[i].id, name |-> recs[i].name, dataUrl |-> recs[i].dataUrl,
         duration |-> recs[i].duration,
         durationSeconds |-> recs[i].durationSeconds,
         timestamp |-> recs[i].timestamp, type |-> recs[i].type]]

C28_NewestFirst ==
    /\ \A type \in Kinds :
          \A i, j \in 1..Len(recordings[type]) :
              i < j => recordings[type][i].timestamp >= recordings[type][j].timestamp
    /\ lastOp = "readerLoad" =>
          \E type \in Kinds :
              /\ recordings[type] # <<>>
              /\ recordings[type][1].obj = nObjects
              /\ recordings[type][1].timestamp = now

\* An add has completed in a kind that holds an older record, after a delete
\* or a rename in the run.
C28_Witness ==
    /\ lastOp = "readerLoad"
    /\ \E type \in Kinds :
          /\ Len(recordings[type]) >= 2
          /\ recordings[type][1].obj = nObjects
          /\ recordings[type][1].timestamp > recordings[type][2].timestamp
          /\ recordings[type][2].name = <<"Take">>

\* What a read of the key of a kind returns: the staged or the stored value.
KeyValue(type) == getFromLocalStorage(StorageKey(type), Null)

\* The operations of the library on its records.
LibraryOps ==
    {"addRecording", "readerLoad", "deleteRecording", "startRename",
     "renameEdit", "renameEnter", "renameBlur", "renameRemovalBlur"}

\* Every record of the kind in memory is of the kind, and what is staged
\* under the key of the kind is the serialization of these records.
KindsApart ==
    \A type \in Kinds :
        /\ \A i \in 1..Len(recordings[type]) : recordings[type][i].type = type
        /\ MapHas(pendingWrites, StorageKey(type)) =>
               MapGet(pendingWrites, StorageKey(type)) = JSONstringify(recordings[type])

\* C29: an operation of the library changes the records and the key of at
\* most one kind, and the records of a kind are staged under its key only.
C29_KindsIndependent ==
    [][lastOp' \in LibraryOps =>
          /\ KindsApart'
          /\ \E type \in Kinds :
                \A other \in Kinds \ {type} :
                    /\ recordings'[other] = recordings[other]
                    /\ KeyValue(other)' = KeyValue(other)]_vars

\* A record of one kind was deleted while the other kind holds a record and
\* both keys are staged.
C29_Witness ==
    /\ lastOp = "deleteRecording"
    /\ lastDelete.type = "improved"
    /\ recordings["raw"] # <<>>
    /\ MapHas(pendingWrites, StorageKey("raw"))
    /\ MapHas(pendingWrites, StorageKey("improved"))
    /\ MapGet(pendingWrites, StorageKey("improved")) = JSONstringify(<<>>)

\* ------------------------------------------------ claims: the time display
\* The time text shows the whole seconds of t and, after a point, its
\* hundredths.
ShowsSubSecond(text, t) ==
    LET secs == (t \div 100) % 60
        frac == Pad2(t % 100)
    IN \E i \in 2..Len(text) :
          /\ text[i] = "."
          /\ text[i - 1] = ToString(secs)
          /\ i + Len(frac) <= Len(text)
          /\ SubSeq(text, i + 1, i + Len(frac)) = frac

\* C30: the text the ticker writes for an elapsed time shows its whole
\* seconds with its hundredths, whatever the elapsed time.
C30_SubSecondShown ==
    lastOp = "ticker" => ShowsSubSecond(recordingLength, elapsedRecordingTime)

\* ------------------------------------- claims: the capture controller (4)
\* C31: whenever getUserMedia has handed over a stream, the start succeeds
\* with a recorder of one of the probed formats, whatever the device reports
\* as supported: format negotiation never makes a start fail.
C31_NegotiationNeverFails ==
    [][Len(streams') > Len(streams) =>
          /\ lastOp' = "startNewRecording"
          /\ isRecording'
          /\ recorders'[mediaRecorder'].stream = stream'
          /\ recorders'[mediaRecorder'].mimeType \in MimeTypes]_vars

\* A step appends a sample to the samples the session has drawn.
SampleAppended ==
    /\ Len(fullWaveformData) >= 1
    /\ Len(fullWaveformData') = Len(fullWaveformData) + 1
    /\ SubSeq(fullWaveformData', 1, Len(fullWaveformData)) = fullWaveformData

\* The canvas of a session holds every sample drawn: the i-th at x = (i - 1)
\* * SampleWidth, and is at least as wide as the minimum.
SamplesWithinSurface ==
    (isRecording /\ fullWaveformData # <<>>) =>
        /\ canvasWidth >= MinCanvasWidth
        /\ (Len(fullWaveformData) - 1) * SampleWidth < canvasWidth

\* C32: in a session the canvas holds every sample and is never narrower
\* than the minimum width; an appended sample never narrows it and widens it
\* by the width of one sample once the samples exceed the minimum width.
C32_SurfaceGrows ==
    /\ [](SamplesWithinSurface)
    /\ [][SampleAppended =>
             /\ canvasWidth' >= canvasWidth
             /\ Len(fullWaveformData) * SampleWidth >= MinCanvasWidth
                    => canvasWidth' = canvasWidth + SampleWidth]_vars

\* A session has drawn a sample beyond the minimum width of the canvas.
C32_Witness ==
    /\ isRecording
    /\ lastOp \in {"frame", "resume"}
    /\ Len(fullWaveformData) * SampleWidth > MinCanvasWidth
    /\ canvasWidth = Len(fullWaveformData) * SampleWidth

\* ----------------------------------------------------- claims: the store (2)
\* C33: whenever a write is staged in pendingWrites, writeTimeout holds the
\* handle of a timeout that is scheduled and will run flushWrites.
C33_StagedHasTimer ==
    pendingWrites # <<>> => (writeTimeout # 0 /\ writeTimeout \in timers)

\* Writes are staged after a save, a flush, further saves and a remove.
C33_Witness ==
    /\ lastOp = "removeFromLocalStorage"
    /\ pendingWrites # <<>>
    /\ setItemLog # <<>>
    /\ removed # [k \in Keys |-> "no"]
    /\ writeTimeout \in timers

\* The value v is the last one saved under k and is staged, n saves made.
LastStaged(k, v, n) ==
    /\ nSaves = n
    /\ windowWrites[k] # <<>>
    /\ windowWrites[k][Len(windowWrites[k])] = v

\* Nothing is staged, and the store holds v under k unless k was removed
\* after v was saved.
Committed(k, v) ==
    /\ pendingWrites = <<>>
    /\ removed[k] = "no" => (k \in DOMAIN localStorage /\ localStorage[k] = v)

\* C34: with the timeouts firing, a staged write is followed either by a
\* further save or by a state in which nothing is staged and the store holds
\* the last value saved under each key that was not removed since.
C34_EventuallyCommitted ==
    \A k \in Keys, v \in Values, n \in 0..MaxFairSaves :
        LastStaged(k, v, n) ~> (nSaves > n \/ Committed(k, v))

\* The last save of a run has been flushed into the store.
C34_Witness ==
    /\ lastOp = "flushWrites"
    /\ nSaves = MaxFairSaves
    /\ pendingWrites = <<>>
    /\ \E k \in DOMAIN localStorage : removed[k] = "no" /\ localStorage[k] # <<>>

\* The last value saved under k since the last flush and the last remove of k.
LastSaved(k) == windowWrites[k][Len(windowWrites[k])]

\* C35: a read of a key returns the last value saved under it, whatever the
\* default, while the write is staged and also right after the flush that
\* commits it.
C35_ReadYourWrites ==
    /\ [](\A k \in Keys, d \in Defaults :
            windowWrites[k] # <<>> => getFromLocalStorage(k, d) = LastSaved(k))
    /\ [][lastOp' = "flushWrites" =>
             \A k \in Keys, d \in Defaults :
                 windowWrites[k] # <<>> => getFromLocalStorage(k, d)' = LastSaved(k)]_vars

\* ------------------------------------- claims: the capture controller (5)
\* C36: isRecording holds exactly when the recorder is recording or paused,
\* isPaused exactly when it is paused, and no pause or resume has been issued
\* to an inactive recorder.
C36_FlagsAgree ==
    /\ isRecording <=> RecorderActive
    /\ isPaused <=> (mediaRecorder # 0 /\ recorders[mediaRecorder].state = "paused")
    /\ lastOp \notin {"togglePauseThrows", "toggleResumeThrows"}

\* C37: at most one interval of the elapsed-time ticker is set and at most
\* one render frame is requested at any time.
C37_OneTickerOneChain ==
    /\ Cardinality(intervals) <= 1
    /\ Cardinality(frames) <= 1

\* ------------------------------------------------ claims: the player (4)
\* C38: while the player has no engine it is not playing, it holds no
\* recording id and no progress interval is set.
C38_NoEngineNoTimer ==
    currentAudio = 0 =>
        /\ ~isPlaying
        /\ currentRecordingId = Null
        /\ progressInterval = 0
        /\ progressIntervals = {}

\* ------------------------------------- claims: the capture controller (6)
\* The chunks recorder r has delivered that were not empty, in their order.
DeliveredChunks(rs, r) ==
    [i \in 1..Len(SelectSeq(rs[r].delivered, LAMBDA nonEmpty : nonEmpty)) |-> r]

\* The recorder whose stop task a step has run.
StoppedBy(r) == recorders'[r].delivered # recorders[r].delivered

\* C39: the Blob that the stop of a recorder hands to the library holds the
\* non-empty chunks this recorder has delivered, in their order, and nothing
\* else.
C39_ArtifactOfSession ==
    [][\A r \in 1..Len(recorders) :
          StoppedBy(r) =>
              /\ Len(readers') = Len(readers) + 1
              /\ readers'[Len(readers')].blob.chunks = DeliveredChunks(recorders', r)]_vars

\* A recorder of a second session has stopped with data and its Blob is with
\* the library, after a first session has delivered data too.
C39_Witness ==
    /\ lastOp \in {"onstop", "onstopAfterReset"}
    /\ Len(readers) = 2
    /\ readers[1].blob.chunks # <<>>
    /\ readers[2].blob.chunks # <<>>
    /\ readers[2].blob.chunks # readers[1].blob.chunks

====
